---------------------------- MODULE Spec2Model ----------------------------
(***************************************************************************)
(* A model of the multi-agent voting, debate and coordination engine of    *)
(* backend/orchestration_enhanced.py, and of the legacy ChiefStrategist of *)
(* backend/agent_orchestration.py.                                         *)
(*                                                                         *)
(* Numbers.  The program computes in Python floats.  The model computes    *)
(* in exact rationals <<n, d>> (d > 0, lowest terms), so a running mean is *)
(* the mathematical mean and round() rounds the exact value (half to       *)
(* even); the last-bit error of binary floating point is not modelled.     *)
(* Strings are TLA+ strings and are built by concatenation as the code     *)
(* builds them.  Wall-clock timestamps and the md5 entry ids are display   *)
(* data the logic never reads and are left out of the records.             *)
(***************************************************************************)
EXTENDS Integers, Sequences, FiniteSets, TLC

(***************************************************************************)
(* Exact rational arithmetic (the float operators of the source).          *)
(***************************************************************************)
RECURSIVE GCD(_, _)
GCD(a, b) == IF b = 0 THEN a ELSE GCD(b, a % b)

AbsInt(i) == IF i < 0 THEN -i ELSE i

Rat(n, d) ==
    LET g == GCD(AbsInt(n), AbsInt(d))
        s == IF d < 0 THEN -1 ELSE 1
    IN  <<(s * n) \div g, (s * d) \div g>>

FromInt(i) == <<i, 1>>

Zero == FromInt(0)

One == FromInt(1)

Add(x, y) == Rat(x[1] * y[2] + y[1] * x[2], x[2] * y[2])

Sub(x, y) == Rat(x[1] * y[2] - y[1] * x[2], x[2] * y[2])

Mul(x, y) == Rat(x[1] * y[1], x[2] * y[2])

\* x / y for y # 0 (every division of the source is guarded or has a
\* positive length as divisor)
Div(x, y) == Rat(x[1] * y[2], x[2] * y[1])

Lt(x, y) == x[1] * y[2] < y[1] * x[2]

Le(x, y) == x[1] * y[2] <= y[1] * x[2]

Gt(x, y) == Lt(y, x)

Ge(x, y) == Le(y, x)

Max(x, y) == IF Lt(x, y) THEN y ELSE x

Min(x, y) == IF Lt(y, x) THEN y ELSE x

AbsRat(x) == <<AbsInt(x[1]), x[2]>>

RECURSIVE Pow10(_)
Pow10(k) == IF k = 0 THEN 1 ELSE 10 * Pow10(k - 1)

\* the integer nearest to n/d (d > 0), a tie going to the even one
RoundInt(n, d) ==
    LET q == n \div d
        r == n % d
    IN  IF 2 * r < d THEN q
        ELSE IF 2 * r > d THEN q + 1
        ELSE IF q % 2 = 0 THEN q ELSE q + 1

\* Python's round(x, ndigits)
Round(x, ndigits) ==
    Rat(RoundInt(x[1] * Pow10(ndigits), x[2]), Pow10(ndigits))

RECURSIVE SumRat(_)
SumRat(s) == IF s = <<>> THEN Zero ELSE Add(s[1], SumRat(Tail(s)))

(***************************************************************************)
(* Python lists and dicts.                                                 *)
(***************************************************************************)
\* s[-n:]
LastN(s, n) == IF Len(s) <= n THEN s ELSE SubSeq(s, Len(s) - n + 1, Len(s))

\* s[:n]
FirstN(s, n) == IF Len(s) <= n THEN s ELSE SubSeq(s, 1, n)

\* a list comprehension, as the sequence of its elements
List(s) == s \o <<>>

EmptyDict == <<>>

\* d.get(k, default)
DictGet(d, k, default) == IF k \in DOMAIN d THEN d[k] ELSE default

\* d[k] = v
DictSet(d, k, v) == [x \in (DOMAIN d) \cup {k} |-> IF x = k THEN v ELSE d[x]]

\* ", ".join(parts) and " | ".join(parts)
RECURSIVE Join(_, _)
Join(sep, parts) ==
    IF parts = <<>> THEN ""
    ELSE IF Len(parts) = 1 THEN parts[1]
    ELSE parts[1] \o sep \o Join(sep, Tail(parts))

\* sorted(s, key=..., reverse=True) and list.sort(key=..., reverse=True):
\* the positions 1..Len(keys) in descending order of key; the sort is stable,
\* so positions with equal keys stay in list order
\* the insertion of a sort that puts the later of two equal keys first
RECURSIVE InsertDesc_unstable(_, _, _)
InsertDesc_unstable(keys, i, s) ==
    IF s = <<>> THEN <<i>>
    ELSE IF Gt(keys[i], keys[s[1]]) THEN <<i>> \o s
    ELSE <<s[1]>> \o InsertDesc_unstable(keys, i, Tail(s))

RECURSIVE InsertDesc(_, _, _)
InsertDesc(keys, i, s) ==
    IF s = <<>> THEN <<i>>
    ELSE IF Ge(keys[i], keys[s[1]]) THEN <<i>> \o s
    ELSE <<s[1]>> \o InsertDesc(keys, i, Tail(s))

RECURSIVE SortDescFrom(_, _)
SortDescFrom(keys, i) ==
    IF i > Len(keys) THEN <<>>
    ELSE InsertDesc(keys, i, SortDescFrom(keys, i + 1))

SortDesc(keys) == SortDescFrom(List(keys), 1)

(***************************************************************************)
(* AgentPersonality and PERSONALITY_MODIFIERS (the entries the engine      *)
(* reads: confidence_bias in the score, description in the opening         *)
(* statement; icon and colour are display data).                           *)
(***************************************************************************)
AgentPersonality ==
    {"aggressive", "cautious", "innovative", "analytical", "strategic"}

PERSONALITY_MODIFIERS ==
    [p \in AgentPersonality |->
        CASE p = "aggressive" ->
               [confidence_bias |-> Rat(15, 100),
                description |-> "Favors high-impact, high-risk strategies"]
          [] p = "cautious" ->
               [confidence_bias |-> Rat(-1, 10),
                description |-> "Prefers proven, low-risk methods"]
          [] p = "innovative" ->
               [confidence_bias |-> Rat(5, 100),
                description |-> "Explores novel zero-day approaches"]
          [] p = "analytical" ->
               [confidence_bias |-> Zero,
                description |-> "Data-driven, evidence-based decisions"]
          [] p = "strategic" ->
               [confidence_bias |-> Rat(5, 100),
                description |-> "Long-term planning with chained attacks"]]

(***************************************************************************)
(* AgentMetrics: the record of one registered agent.                       *)
(***************************************************************************)
\* the entries of confidence_history that are kept
HistoryCap == 50

\* the entries needed before calibration_score is computed
CalibrationMin == 5

\* the most recent entries calibration_score is computed from
CalibrationWindow == 10

\* AgentMetrics(agent_id=..., agent_name=..., team=..., personality=...)
AgentMetrics(agent_id, agent_name, team, personality) ==
    [agent_id |-> agent_id,
     agent_name |-> agent_name,
     team |-> team,
     personality |-> personality,
     success_rate |-> Rat(1, 2),
     total_missions |-> 0,
     avg_response_time_ms |-> Zero,
     calibration_score |-> Rat(1, 2),
     confidence_history |-> <<>>,
     specialization_scores |-> EmptyDict,
     collaboration_scores |-> EmptyDict,
     total_tokens_used |-> 0,
     total_cost_usd |-> Zero]

get_specialization_bonus(m, mission_type) ==
    DictGet(m.specialization_scores, mission_type, Zero)

\* update_specialization without the upper clamp
update_specialization_unclamped(m, mission_type, success) ==
    LET current == DictGet(m.specialization_scores, mission_type, Zero)
        delta == IF success THEN Rat(5, 100) ELSE Rat(-2, 100)
    IN  [m EXCEPT !.specialization_scores =
            DictSet(@, mission_type, Max(Rat(-1, 10), Add(current, delta)))]

update_specialization(m, mission_type, success) ==
    LET current == DictGet(m.specialization_scores, mission_type, Zero)
        delta == IF success THEN Rat(5, 100) ELSE Rat(-2, 100)
    IN  [m EXCEPT !.specialization_scores =
            DictSet(@, mission_type,
                    Max(Rat(-1, 10), Min(Rat(3, 10), Add(current, delta))))]

\* abs(conf - actual) of one (confidence, success) pair
CalibrationError(pair) ==
    AbsRat(Sub(pair[1], IF pair[2] THEN One ELSE Zero))

\* update_calibration scoring from the fourth pair on
update_calibration_eager(m, confidence, success) ==
    LET appended == Append(m.confidence_history, <<confidence, success>>)
        history == IF Len(appended) > HistoryCap
                   THEN LastN(appended, HistoryCap) ELSE appended
        recent == LastN(history, CalibrationWindow)
        errors == [i \in 1..Len(recent) |-> CalibrationError(recent[i])]
    IN  [m EXCEPT
            !.confidence_history = history,
            !.calibration_score =
                IF Len(history) >= CalibrationMin - 1
                THEN Sub(One, Div(SumRat(errors), FromInt(Len(errors))))
                ELSE @]

\* update_calibration averaging over the whole retained history
update_calibration_unwindowed(m, confidence, success) ==
    LET appended == Append(m.confidence_history, <<confidence, success>>)
        history == IF Len(appended) > HistoryCap
                   THEN LastN(appended, HistoryCap) ELSE appended
        errors == [i \in 1..Len(history) |-> CalibrationError(history[i])]
    IN  [m EXCEPT
            !.confidence_history = history,
            !.calibration_score =
                IF Len(history) >= CalibrationMin
                THEN Sub(One, Div(SumRat(errors), FromInt(Len(errors))))
                ELSE @]

\* update_calibration discounting the confidence of an agent whose answers
\* were slow on average
update_calibration_timed(m, confidence, success) ==
    LET given == IF Gt(m.avg_response_time_ms, FromInt(200))
                 THEN Mul(confidence, Rat(1, 2)) ELSE confidence
        appended == Append(m.confidence_history, <<given, success>>)
        history == IF Len(appended) > HistoryCap
                   THEN LastN(appended, HistoryCap) ELSE appended
        recent == LastN(history, CalibrationWindow)
        errors == [i \in 1..Len(recent) |-> CalibrationError(recent[i])]
    IN  [m EXCEPT
            !.confidence_history = history,
            !.calibration_score =
                IF Len(history) >= CalibrationMin
                THEN Sub(One, Div(SumRat(errors), FromInt(Len(errors))))
                ELSE @]

update_calibration(m, confidence, success) ==
    LET appended == Append(m.confidence_history, <<confidence, success>>)
        history == IF Len(appended) > HistoryCap
                   THEN LastN(appended, HistoryCap) ELSE appended
        recent == LastN(history, CalibrationWindow)
        errors == [i \in 1..Len(recent) |-> CalibrationError(recent[i])]
    IN  [m EXCEPT
            !.confidence_history = history,
            !.calibration_score =
                IF Len(history) >= CalibrationMin
                THEN Sub(One, Div(SumRat(errors), FromInt(Len(errors))))
                ELSE @]

update_collaboration(m, other_agent_id, success) ==
    LET current == DictGet(m.collaboration_scores, other_agent_id, Rat(1, 2))
        delta == IF success THEN Rat(5, 100) ELSE Rat(-3, 100)
    IN  [m EXCEPT !.collaboration_scores =
            DictSet(@, other_agent_id,
                    Max(Zero, Min(One, Add(current, delta))))]

\* for other_id in collaborators: metrics.update_collaboration(other_id, success)
RECURSIVE update_collaborations(_, _, _)
update_collaborations(m, collaborators, success) ==
    IF collaborators = <<>> THEN m
    ELSE update_collaborations(
             update_collaboration(m, collaborators[1], success),
             Tail(collaborators), success)

\* the running means taken over total_missions, not total_missions - 1,
\* earlier samples (the initial 0.5 then counts as a sample)
updated_metrics_counting_default(m0, success, response_time_ms, mission_type, confidence_given, tokens_used, collaborators) ==
    LET n == m0.total_missions + 1
        old_total == Mul(FromInt(n), m0.success_rate)
        old_time == Mul(FromInt(n), m0.avg_response_time_ms)
        m1 == [m0 EXCEPT
                 !.total_missions = n,
                 !.success_rate =
                     Div(Add(old_total, IF success THEN One ELSE Zero),
                         FromInt(n)),
                 !.avg_response_time_ms =
                     Div(Add(old_time, FromInt(response_time_ms)), FromInt(n))]
        m2 == update_specialization(m1, mission_type, success)
        m3 == update_calibration(m2, confidence_given, success)
        m4 == update_collaborations(m3, collaborators, success)
    IN  [m4 EXCEPT
            !.total_tokens_used = @ + tokens_used,
            !.total_cost_usd =
                Add(@, Mul(Rat(tokens_used, 1000), Rat(1, 1000)))]

\* the body of update_metrics_after_mission for a registered agent
updated_metrics(m0, success, response_time_ms, mission_type, confidence_given, tokens_used, collaborators) ==
    LET n == m0.total_missions + 1
        old_total == Mul(FromInt(n - 1), m0.success_rate)
        old_time == Mul(FromInt(n - 1), m0.avg_response_time_ms)
        m1 == [m0 EXCEPT
                 !.total_missions = n,
                 !.success_rate =
                     Div(Add(old_total, IF success THEN One ELSE Zero),
                         FromInt(n)),
                 !.avg_response_time_ms =
                     Div(Add(old_time, FromInt(response_time_ms)), FromInt(n))]
        m2 == update_specialization(m1, mission_type, success)
        m3 == update_calibration(m2, confidence_given, success)
        m4 == update_collaborations(m3, collaborators, success)
    IN  [m4 EXCEPT
            !.total_tokens_used = @ + tokens_used,
            !.total_cost_usd =
                Add(@, Mul(Rat(tokens_used, 1000), Rat(1, 1000)))]

(***************************************************************************)
(* AgentProposal.  A proposal is the record                                *)
(*   [agent_id, agent_name, team, proposal_text, confidence,               *)
(*    estimated_impact, personality, specialization_bonus];                *)
(* reasoning, chain_of_thought and mitre_technique are carried through     *)
(* to_dict unread and are left out.                                        *)
(***************************************************************************)
None == "<None>"

\* AgentProposal.to_dict
proposal_to_dict(p) ==
    [agent_id |-> p.agent_id,
     agent_name |-> p.agent_name,
     team |-> p.team,
     proposal_text |-> p.proposal_text,
     confidence |-> Round(p.confidence, 3),
     estimated_impact |-> p.estimated_impact,
     personality |-> p.personality,
     specialization_bonus |-> Round(p.specialization_bonus, 3)]

(***************************************************************************)
(* VotingOrchestrator.calculate_weighted_votes                             *)
(***************************************************************************)
\* the confidence weight without its floor of 0.1
confidence_weight_unfloored(p) ==
    Min(One, Add(p.confidence,
                 PERSONALITY_MODIFIERS[p.personality].confidence_bias))

\* min(1.0, max(0.1, proposal.confidence + personality_mod["confidence_bias"]))
confidence_weight(p) ==
    Min(One, Max(Rat(1, 10),
                 Add(p.confidence,
                     PERSONALITY_MODIFIERS[p.personality].confidence_bias)))

\* the performance term with the legacy default of 0.0 for an agent without
\* a record
performance_weight_legacy_default(p, metrics) ==
    IF p.agent_id \in DOMAIN metrics
    THEN metrics[p.agent_id].success_rate ELSE Zero

\* metrics.success_rate if metrics else 0.5
performance_weight(p, metrics) ==
    IF p.agent_id \in DOMAIN metrics
    THEN metrics[p.agent_id].success_rate ELSE Rat(1, 2)

\* metrics.calibration_score if metrics else 0.5
calibration_weight(p, metrics) ==
    IF p.agent_id \in DOMAIN metrics
    THEN metrics[p.agent_id].calibration_score ELSE Rat(1, 2)

\* the score formula of the legacy orchestrator: 0.4 performance, 0.6
\* confidence
proposal_score_legacy(p, metrics) ==
    Mul(Add(Mul(performance_weight(p, metrics), Rat(4, 10)),
            Mul(p.confidence, Rat(6, 10))),
        FromInt(p.estimated_impact))

\* the weighted score formula
proposal_score(p, metrics) ==
    Mul(Add(Add(Mul(performance_weight(p, metrics), Rat(25, 100)),
                Mul(confidence_weight(p), Rat(35, 100))),
            Add(Mul(calibration_weight(p, metrics), Rat(20, 100)),
                Mul(p.specialization_bonus, Rat(20, 100)))),
        FromInt(p.estimated_impact))

\* one entry of weighted_scores
weighted_score(p, metrics) ==
    [proposal |-> p,
     score |-> proposal_score(p, metrics),
     breakdown |->
        [performance |-> Round(performance_weight(p, metrics), 3),
         confidence |-> Round(confidence_weight(p), 3),
         calibration |-> Round(calibration_weight(p, metrics), 3),
         specialization |-> Round(p.specialization_bonus, 3),
         base_impact |-> p.estimated_impact,
         personality_bias |->
             PERSONALITY_MODIFIERS[p.personality].confidence_bias]]

\* weighted_scores after weighted_scores.sort(key=score, reverse=True)
sorted_weighted_scores(props, metrics) ==
    LET ws == List([i \in 1..Len(props) |-> weighted_score(props[i], metrics)])
        order == SortDesc([i \in 1..Len(props) |-> ws[i].score])
    IN  List([k \in 1..Len(props) |-> ws[order[k]]])

\* the vote distribution keyed by agent_id, one entry per agent
RECURSIVE vote_distribution_by_id(_, _, _)
vote_distribution_by_id(ws, total, distribution) ==
    IF ws = <<>> THEN distribution
    ELSE LET pct == IF Gt(total, Zero)
                    THEN Mul(Div(ws[1].score, total), FromInt(100))
                    ELSE Zero
         IN  vote_distribution_by_id(
                 Tail(ws), total,
                 DictSet(distribution, ws[1].proposal.agent_id,
                         Round(pct, 1)))

\* the vote distribution: one dict store per entry, in ranking order
RECURSIVE vote_distribution(_, _, _)
vote_distribution(ws, total, distribution) ==
    IF ws = <<>> THEN distribution
    ELSE LET pct == IF Gt(total, Zero)
                    THEN Mul(Div(ws[1].score, total), FromInt(100))
                    ELSE Zero
         IN  vote_distribution(
                 Tail(ws), total,
                 DictSet(distribution, ws[1].proposal.agent_name,
                         Round(pct, 1)))

\* one entry of result["all_votes"]
vote_entry(s) ==
    LET d == proposal_to_dict(s.proposal)
    IN  [agent_id |-> d.agent_id,
         agent_name |-> d.agent_name,
         team |-> d.team,
         proposal_text |-> d.proposal_text,
         confidence |-> d.confidence,
         estimated_impact |-> d.estimated_impact,
         personality |-> d.personality,
         specialization_bonus |-> d.specialization_bonus,
         score |-> Round(s.score, 2),
         breakdown |-> s.breakdown]

\* calculate_weighted_votes settling on a neutral consensus of 0.5 when the
\* total is 0
calculate_weighted_votes_neutral(props, metrics) ==
    IF props = <<>>
    THEN [error |-> "No proposals to vote on", all_votes |-> <<>>]
    ELSE LET ws == sorted_weighted_scores(props, metrics)
             total_score == SumRat([i \in 1..Len(ws) |-> ws[i].score])
             consensus == IF Gt(total_score, Zero)
                          THEN Div(ws[1].score, total_score) ELSE Rat(1, 2)
         IN  [winner |-> proposal_to_dict(ws[1].proposal),
              winner_score |-> Round(ws[1].score, 2),
              all_votes |-> List([i \in 1..Len(ws) |-> vote_entry(ws[i])]),
              consensus_strength |-> Round(consensus, 3),
              vote_distribution |-> vote_distribution(ws, total_score, EmptyDict),
              total_proposals |-> Len(props)]

\* the value calculate_weighted_votes returns
calculate_weighted_votes(props, metrics) ==
    IF props = <<>>
    THEN [error |-> "No proposals to vote on", all_votes |-> <<>>]
    ELSE LET ws == sorted_weighted_scores(props, metrics)
             total_score == SumRat([i \in 1..Len(ws) |-> ws[i].score])
             consensus == IF Gt(total_score, Zero)
                          THEN Div(ws[1].score, total_score) ELSE Zero
         IN  [winner |-> proposal_to_dict(ws[1].proposal),
              winner_score |-> Round(ws[1].score, 2),
              all_votes |-> List([i \in 1..Len(ws) |-> vote_entry(ws[i])]),
              consensus_strength |-> Round(consensus, 3),
              vote_distribution |-> vote_distribution(ws, total_score, EmptyDict),
              total_proposals |-> Len(props)]

(***************************************************************************)
(* VotingOrchestrator.generate_debate                                      *)
(***************************************************************************)
\* f"{x:.0%}" of a confidence
Percent(x) == ToString(RoundInt(x[1] * 100, x[2])) \o "%"

\* DebateRound(...); target_agent defaults to None
DebateRound(p, round_type, statement, target_agent) ==
    [agent_id |-> p.agent_id,
     agent_name |-> p.agent_name,
     round_type |-> round_type,
     statement |-> statement,
     target_agent |-> target_agent,
     confidence |-> p.confidence,
     personality |-> p.personality]

\* DebateRound.to_dict
round_to_dict(r) == [r EXCEPT !.confidence = Round(@, 3)]

opening_round(p) ==
    DebateRound(p, "opening",
        "I propose: " \o p.proposal_text \o ". My confidence is "
            \o Percent(p.confidence) \o ". "
            \o PERSONALITY_MODIFIERS[p.personality].description \o ".",
        None)

personality_challenge(challenger, opponent) ==
    CASE challenger.personality = "aggressive" ->
           "While " \o opponent.agent_name
               \o " hesitates, my bold approach ensures decisive results."
      [] challenger.personality = "cautious" ->
           opponent.agent_name
               \o "'s approach carries unnecessary risk that could compromise the mission."
      [] challenger.personality = "innovative" ->
           "My novel approach exploits vectors that " \o opponent.agent_name
               \o "'s conventional strategy would miss."
      [] challenger.personality = "analytical" ->
           "The data clearly shows my approach outperforms "
               \o opponent.agent_name \o "'s proposal."
      [] challenger.personality = "strategic" ->
           "My long-term strategy accounts for factors " \o opponent.agent_name
               \o " hasn't considered."

_generate_challenge(challenger, opponent) ==
    LET impact == IF challenger.estimated_impact > opponent.estimated_impact
                  THEN <<"My approach delivers "
                           \o ToString(challenger.estimated_impact
                                         - opponent.estimated_impact)
                           \o "% more impact than " \o opponent.agent_name
                           \o "'s strategy.">>
                  ELSE <<>>
        diff == Mul(Sub(challenger.confidence, opponent.confidence),
                    FromInt(100))
        conf == IF Gt(challenger.confidence, opponent.confidence)
                THEN <<"I have " \o ToString(RoundInt(diff[1], diff[2]))
                         \o "% higher confidence than " \o opponent.agent_name
                         \o ".">>
                ELSE <<>>
        challenges == impact \o conf
                        \o <<personality_challenge(challenger, opponent)>>
    IN  Join(" ", FirstN(SelectSeq(challenges, LAMBDA c : c # ""), 2))

_generate_rebuttal(p) ==
    CASE p.personality = "aggressive" ->
           "Speed and decisiveness win battles. My approach minimizes time-to-impact."
      [] p.personality = "cautious" ->
           "A measured approach ensures mission success without collateral damage."
      [] p.personality = "innovative" ->
           "Defenders can't block what they've never seen. Novelty is my advantage."
      [] p.personality = "analytical" ->
           "The evidence supports my conclusion. Numbers don't lie."
      [] p.personality = "strategic" ->
           "This move sets up three follow-on attacks. I'm thinking ahead."
      [] OTHER -> "My analysis stands on its merits."

\* the challenge aimed at the proposal before, not the one after
challenge_round_backwards(props, i) ==
    LET opponent == props[((i + Len(props) - 2) % Len(props)) + 1]
    IN  DebateRound(props[i], "challenge",
                    _generate_challenge(props[i], opponent),
                    opponent.agent_name)

challenge_round(props, i) ==
    LET opponent == props[(i % Len(props)) + 1]
    IN  DebateRound(props[i], "challenge",
                    _generate_challenge(props[i], opponent),
                    opponent.agent_name)

rebuttal_round(p) == DebateRound(p, "rebuttal", _generate_rebuttal(p), None)

closing_round(p) ==
    DebateRound(p, "closing",
        "In conclusion: " \o p.proposal_text \o " delivers "
            \o ToString(p.estimated_impact)
            \o "% impact. The evidence supports my approach.",
        None)

\* the closers without the [:2] slice
top_two_unsliced(props) ==
    LET order == SortDesc([i \in 1..Len(props) |-> props[i].confidence])
    IN  List([k \in 1..Len(props) |-> props[order[k]]])

\* sorted(self.proposals, key=confidence, reverse=True)[:2]
top_two(props) ==
    LET order == SortDesc([i \in 1..Len(props) |-> props[i].confidence])
    IN  FirstN(List([k \in 1..Len(props) |-> props[order[k]]]), 2)

\* the rounds list generate_debate builds (for two proposals or more)
debate_rounds(props) ==
    LET closers == top_two(props)
    IN  [i \in 1..Len(props) |-> opening_round(props[i])]
            \o [i \in 1..Len(props) |-> challenge_round(props, i)]
            \o [i \in 1..Len(props) |-> rebuttal_round(props[i])]
            \o [i \in 1..Len(closers) |-> closing_round(closers[i])]

\* the value generate_debate returns
generate_debate(props) ==
    IF Len(props) < 2 THEN <<>>
    ELSE LET rounds == debate_rounds(props)
         IN  List([i \in 1..Len(rounds) |-> round_to_dict(rounds[i])])

(***************************************************************************)
(* VotingOrchestrator.ensemble_decision                                    *)
(***************************************************************************)
Square(x) == Mul(x, x)

Mean(xs) == Div(SumRat(xs), FromInt(Len(xs)))

\* sum((x - mean) ** 2 for x in xs) / len(xs)
Variance(xs) ==
    LET mean == Mean(xs)
    IN  Div(SumRat([i \in 1..Len(xs) |-> Square(Sub(xs[i], mean))]),
            FromInt(Len(xs)))

ensemble_decision(props) ==
    IF props = <<>>
    THEN [error |-> "No proposals for ensemble"]
    ELSE LET impacts == [i \in 1..Len(props) |->
                            FromInt(props[i].estimated_impact)]
             confidences == [i \in 1..Len(props) |-> props[i].confidence]
             impact_var == Variance(impacts)
             conf_var == Variance(confidences)
             agreement == Div(One, Add(Add(One, Div(impact_var, FromInt(100))),
                                       conf_var))
         IN  [mean_impact |-> Round(Mean(impacts), 2),
              mean_confidence |-> Round(Mean(confidences), 3),
              impact_variance |-> Round(impact_var, 2),
              confidence_variance |-> Round(conf_var, 4),
              agreement_score |-> Round(agreement, 3),
              recommendation |->
                  IF Gt(agreement, Rat(7, 10)) THEN "High confidence"
                  ELSE "Models disagree - review needed",
              model_count |-> Len(props)]

(***************************************************************************)
(* VotingOrchestrator.register_agent and update_metrics_after_mission, as  *)
(* functions of the agent_metrics dict.                                    *)
(***************************************************************************)
\* register_agent replacing the record of an id already registered
register_agent_overwriting(metrics, agent_id, agent_name, team, personality) ==
    DictSet(metrics, agent_id, AgentMetrics(agent_id, agent_name, team, personality))

register_agent(metrics, agent_id, agent_name, team, personality) ==
    IF agent_id \notin DOMAIN metrics
    THEN DictSet(metrics, agent_id,
                 AgentMetrics(agent_id, agent_name, team, personality))
    ELSE metrics

\* update_metrics_after_mission keeping the collaboration score symmetric:
\* each registered collaborator's score towards the agent moves as well
update_metrics_mutual(metrics, agent_id, success, response_time_ms, mission_type, confidence_given, tokens_used, collaborators) ==
    IF agent_id \notin DOMAIN metrics
    THEN metrics
    ELSE [id \in DOMAIN metrics |->
            IF id = agent_id
            THEN updated_metrics(metrics[id], success, response_time_ms,
                                 mission_type, confidence_given, tokens_used,
                                 collaborators)
            ELSE IF \E i \in 1..Len(collaborators) : collaborators[i] = id
                 THEN update_collaboration(metrics[id], agent_id, success)
                 ELSE metrics[id]]

\* update_metrics_after_mission creating the record of an unknown agent, as
\* the legacy update_agent_metrics does
update_metrics_registering(metrics, agent_id, success, response_time_ms, mission_type, confidence_given, tokens_used, collaborators) ==
    LET known == IF agent_id \in DOMAIN metrics THEN metrics
                 ELSE DictSet(metrics, agent_id,
                              AgentMetrics(agent_id, agent_id, "RED", "analytical"))
    IN  [known EXCEPT ![agent_id] =
            updated_metrics(@, success, response_time_ms, mission_type,
                            confidence_given, tokens_used, collaborators)]

update_metrics_after_mission(metrics, agent_id, success, response_time_ms, mission_type, confidence_given, tokens_used, collaborators) ==
    IF agent_id \notin DOMAIN metrics
    THEN metrics
    ELSE [metrics EXCEPT ![agent_id] =
            updated_metrics(@, success, response_time_ms, mission_type,
                            confidence_given, tokens_used, collaborators)]

(***************************************************************************)
(* AgentMemory.  An entry is [id, mission_type, strategy, outcome,         *)
(* success]; the id, a hash of the mission type, the strategy and the time *)
(* of the call, is modelled by the number of the call.                     *)
(***************************************************************************)
\* AgentMemory(max_history)
AgentMemory(max_history) ==
    [mission_history |-> <<>>,
     successful_strategies |-> <<>>,
     failed_strategies |-> <<>>,
     learned_patterns |-> EmptyDict,
     max_history |-> max_history]

\* add_mission cutting the history from the wrong end
add_mission_keeping_oldest(mem, entry_id, mission_type, strategy, outcome, success) ==
    LET entry == [id |-> entry_id,
                  mission_type |-> mission_type,
                  strategy |-> strategy,
                  outcome |-> outcome,
                  success |-> success]
        appended == Append(mem.mission_history, entry)
        history == IF Len(appended) > mem.max_history
                   THEN FirstN(appended, mem.max_history) ELSE appended
    IN  IF success
        THEN [mem EXCEPT
                !.mission_history = history,
                !.successful_strategies = Append(@, entry),
                !.learned_patterns =
                    DictSet(@, mission_type,
                            Append(DictGet(@, mission_type, <<>>), strategy))]
        ELSE [mem EXCEPT
                !.mission_history = history,
                !.failed_strategies = Append(@, entry)]

add_mission(mem, entry_id, mission_type, strategy, outcome, success) ==
    LET entry == [id |-> entry_id,
                  mission_type |-> mission_type,
                  strategy |-> strategy,
                  outcome |-> outcome,
                  success |-> success]
        appended == Append(mem.mission_history, entry)
        history == IF Len(appended) > mem.max_history
                   THEN LastN(appended, mem.max_history) ELSE appended
    IN  IF success
        THEN [mem EXCEPT
                !.mission_history = history,
                !.successful_strategies = Append(@, entry),
                !.learned_patterns =
                    DictSet(@, mission_type,
                            Append(DictGet(@, mission_type, <<>>), strategy))]
        ELSE [mem EXCEPT
                !.mission_history = history,
                !.failed_strategies = Append(@, entry)]

\* [s["strategy"] for s in entries if s["mission_type"] == mission_type]
strategies_of(entries, mission_type) ==
    LET matching == SelectSeq(entries, LAMBDA e : e.mission_type = mission_type)
    IN  [i \in 1..Len(matching) |-> matching[i].strategy]

\* get_relevant_context without the fallback to the sentinel
get_relevant_context_no_sentinel(mem, mission_type) ==
    LET successful == LastN(strategies_of(mem.successful_strategies,
                                          mission_type), 3)
        failed == LastN(strategies_of(mem.failed_strategies, mission_type), 2)
        context_parts ==
            (IF successful # <<>>
             THEN <<"Previously successful: " \o Join(", ", successful)>>
             ELSE <<>>)
            \o (IF failed # <<>>
                THEN <<"Avoid (failed before): " \o Join(", ", failed)>>
                ELSE <<>>)
    IN  Join(" | ", context_parts)

get_relevant_context(mem, mission_type) ==
    LET successful == LastN(strategies_of(mem.successful_strategies,
                                          mission_type), 3)
        failed == LastN(strategies_of(mem.failed_strategies, mission_type), 2)
        context_parts ==
            (IF successful # <<>>
             THEN <<"Previously successful: " \o Join(", ", successful)>>
             ELSE <<>>)
            \o (IF failed # <<>>
                THEN <<"Avoid (failed before): " \o Join(", ", failed)>>
                ELSE <<>>)
    IN  IF context_parts # <<>> THEN Join(" | ", context_parts)
        ELSE "No prior experience."

(***************************************************************************)
(* The legacy ChiefStrategist.make_final_decision of                       *)
(* agent_orchestration.py.  vote_results is a record that may lack the     *)
(* fields winner and consensus_strength, and its winner may lack           *)
(* proposal_text.                                                          *)
(***************************************************************************)
\* make_final_decision taking a result without consensus_strength as a
\* round without consensus (0 for 0.5)
make_final_decision_rejecting(vote_results) ==
    LET winner == IF "winner" \in DOMAIN vote_results
                  THEN vote_results.winner ELSE EmptyDict
        consensus == IF "consensus_strength" \in DOMAIN vote_results
                     THEN vote_results.consensus_strength ELSE Zero
    IN  [approved |-> Gt(consensus, Rat(4, 10)),
         reasoning |->
             "Consensus strength: " \o Percent(consensus) \o ". "
                 \o (IF Gt(consensus, Rat(6, 10))
                     THEN "Strong agreement across agents."
                     ELSE "Moderate agreement, proceeding with caution."),
         selected_strategy |->
             IF "proposal_text" \in DOMAIN winner
             THEN winner.proposal_text ELSE "Default strategy",
         override |-> Lt(consensus, Rat(3, 10))]

\* make_final_decision approving from 0.4 on (>= for >)
make_final_decision_ge(vote_results) ==
    LET winner == IF "winner" \in DOMAIN vote_results
                  THEN vote_results.winner ELSE EmptyDict
        consensus == IF "consensus_strength" \in DOMAIN vote_results
                     THEN vote_results.consensus_strength ELSE Rat(1, 2)
    IN  [approved |-> Ge(consensus, Rat(4, 10)),
         reasoning |-> "",
         selected_strategy |->
             IF "proposal_text" \in DOMAIN winner
             THEN winner.proposal_text ELSE "Default strategy",
         override |-> Lt(consensus, Rat(3, 10))]

make_final_decision(vote_results) ==
    LET winner == IF "winner" \in DOMAIN vote_results
                  THEN vote_results.winner ELSE EmptyDict
        consensus == IF "consensus_strength" \in DOMAIN vote_results
                     THEN vote_results.consensus_strength ELSE Rat(1, 2)
    IN  [approved |-> Gt(consensus, Rat(4, 10)),
         reasoning |->
             "Consensus strength: " \o Percent(consensus) \o ". "
                 \o (IF Gt(consensus, Rat(6, 10))
                     THEN "Strong agreement across agents."
                     ELSE "Moderate agreement, proceeding with caution."),
         selected_strategy |->
             IF "proposal_text" \in DOMAIN winner
             THEN winner.proposal_text ELSE "Default strategy",
         override |-> Lt(consensus, Rat(3, 10))]

(***************************************************************************)
(* The state: one VotingOrchestrator (proposals, agent_metrics, memory,    *)
(* voting_history, debate_history), the last call made and the value it    *)
(* returned.  clock counts the add_mission calls (it stands for the time   *)
(* the entry ids are hashed from), tally records per agent the missions    *)
(* reported for it while it was registered, and replicas are the           *)
(* agent_metrics of two further orchestrator instances.                    *)
(***************************************************************************)
VARIABLES proposals, agent_metrics, memory, voting_history, debate_history,
          clock, call, ret, tally, replicas,
          strategists, reflection_history,
          game_pc, inbox, broadcasts, sent

\* the orchestrator singleton (with the bookkeeping of its calls)
orchestratorVars ==
    <<proposals, agent_metrics, memory, voting_history, debate_history,
      clock, tally, replicas>>

\* one /ws/game connection of main.py: where its handler waits (game_pc),
\* the client's messages not yet read by receive_text (inbox), the PROPOSAL,
\* ATTACK_LAUNCH and IMPACT broadcasts of the handler together with a mark
\* for each mission it initialised (broadcasts), and how many messages the
\* client has sent (sent)
gameVars == <<game_pc, inbox, broadcasts, sent>>

\* the other singletons of the module: red_strategist and blue_strategist
\* (strategists[team] is [sub_agents, coordination_history]) and
\* reflection_engine; and the game connection
serverVars == <<strategists, reflection_history, gameVars>>

vars == <<orchestratorVars, call, ret, serverVars>>

\* the ids the DEFAULT_AGENTS table registers the two scanners under
AgentIds == {"RED_SCANNER", "BLUE_SCANNER"}

\* AgentMemory's default max_history
DefaultMaxHistory == 100

Call(op, args) == [op |-> op, args |-> args]

\* VotingOrchestrator() (and the module's singletons before any call)
Init ==
    /\ proposals = <<>>
    /\ agent_metrics = EmptyDict
    /\ memory = AgentMemory(DefaultMaxHistory)
    /\ voting_history = <<>>
    /\ debate_history = <<>>
    /\ clock = 0
    /\ call = Call("__init__", <<>>)
    /\ ret = None
    /\ tally = [a \in AgentIds |-> [calls |-> 0, successes |-> 0, time |-> 0]]
    /\ replicas = <<EmptyDict, EmptyDict>>
    /\ strategists = [team \in {"RED", "BLUE"} |-> [sub_agents |-> <<>>, coordination_history |-> <<>>]]
    /\ reflection_history = <<>>
    /\ game_pc = "WAIT_START"
    /\ inbox = <<>>
    /\ broadcasts = <<>>
    /\ sent = [commands |-> 0, noise |-> 0]

RegisterAgent(agent_id, agent_name, team, personality) ==
    /\ agent_metrics' =
           register_agent(agent_metrics, agent_id, agent_name, team, personality)
    /\ call' = Call("register_agent", <<agent_id, agent_name, team, personality>>)
    /\ ret' = None
    /\ UNCHANGED <<proposals, memory, voting_history, debate_history, clock,
                   tally, replicas, serverVars>>

\* add_proposal keeping one proposal per agent: a new proposal takes the
\* place of the agent's earlier one
AddProposal_deduplicating(p) ==
    /\ proposals' = Append(SelectSeq(proposals, LAMBDA q : q.agent_id # p.agent_id), p)
    /\ call' = Call("add_proposal", <<p>>)
    /\ ret' = None
    /\ UNCHANGED <<agent_metrics, memory, voting_history, debate_history,
                   clock, tally, replicas, serverVars>>

AddProposal(p) ==
    /\ proposals' = Append(proposals, p)
    /\ call' = Call("add_proposal", <<p>>)
    /\ ret' = None
    /\ UNCHANGED <<agent_metrics, memory, voting_history, debate_history,
                   clock, tally, replicas, serverVars>>

\* calculate_weighted_votes recording the vote before looking at the list
CalculateWeightedVotes_recording ==
    LET result == calculate_weighted_votes(proposals, agent_metrics)
    IN  /\ voting_history' = Append(voting_history, result)
        /\ call' = Call("calculate_weighted_votes", <<>>)
        /\ ret' = result
        /\ UNCHANGED <<proposals, agent_metrics, memory, debate_history,
                       clock, tally, replicas, serverVars>>

CalculateWeightedVotes ==
    LET result == calculate_weighted_votes(proposals, agent_metrics)
    IN  /\ voting_history' = IF proposals = <<>> THEN voting_history
                             ELSE Append(voting_history, result)
        /\ call' = Call("calculate_weighted_votes", <<>>)
        /\ ret' = result
        /\ UNCHANGED <<proposals, agent_metrics, memory, debate_history,
                       clock, tally, replicas, serverVars>>

\* generate_debate keeping the transcript of the current round only
GenerateDebate_latest_only ==
    /\ debate_history' = IF Len(proposals) < 2 THEN debate_history
                         ELSE <<debate_rounds(proposals)>>
    /\ call' = Call("generate_debate", <<>>)
    /\ ret' = generate_debate(proposals)
    /\ UNCHANGED <<proposals, agent_metrics, memory, voting_history, clock,
                   tally, replicas, serverVars>>

GenerateDebate ==
    /\ debate_history' = IF Len(proposals) < 2 THEN debate_history
                         ELSE Append(debate_history, debate_rounds(proposals))
    /\ call' = Call("generate_debate", <<>>)
    /\ ret' = generate_debate(proposals)
    /\ UNCHANGED <<proposals, agent_metrics, memory, voting_history, clock,
                   tally, replicas, serverVars>>

EnsembleDecision ==
    /\ call' = Call("ensemble_decision", <<>>)
    /\ ret' = ensemble_decision(proposals)
    /\ UNCHANGED <<proposals, agent_metrics, memory, voting_history,
                   debate_history, clock, tally, replicas, serverVars>>

UpdateMetricsAfterMission(agent_id, success, response_time_ms, mission_type, confidence_given, tokens_used, collaborators) ==
    /\ agent_metrics' =
           update_metrics_after_mission(agent_metrics, agent_id, success,
               response_time_ms, mission_type, confidence_given, tokens_used,
               collaborators)
    /\ tally' = IF agent_id \in DOMAIN agent_metrics /\ agent_id \in AgentIds
                THEN [tally EXCEPT ![agent_id] =
                        [calls |-> @.calls + 1,
                         successes |-> @.successes + (IF success THEN 1 ELSE 0),
                         time |-> @.time + response_time_ms]]
                ELSE tally
    /\ call' = Call("update_metrics_after_mission",
                    <<agent_id, success, response_time_ms, mission_type,
                      confidence_given, tokens_used, collaborators>>)
    /\ ret' = None
    /\ UNCHANGED <<proposals, memory, voting_history, debate_history, clock,
                   replicas, serverVars>>

\* clear_proposals starting the session over: the histories go with the
\* proposals
ClearProposals_resetting ==
    /\ proposals' = <<>>
    /\ voting_history' = <<>>
    /\ debate_history' = <<>>
    /\ call' = Call("clear_proposals", <<>>)
    /\ ret' = None
    /\ UNCHANGED <<agent_metrics, memory, clock, tally, replicas, serverVars>>

ClearProposals ==
    /\ proposals' = <<>>
    /\ call' = Call("clear_proposals", <<>>)
    /\ ret' = None
    /\ UNCHANGED <<agent_metrics, memory, voting_history, debate_history,
                   clock, tally, replicas, serverVars>>

\* orchestrator.memory.add_mission(...); it returns the entry id
AddMission(mission_type, strategy, outcome, success) ==
    /\ clock' = clock + 1
    /\ memory' = add_mission(memory, clock + 1, mission_type, strategy,
                             outcome, success)
    /\ call' = Call("add_mission", <<mission_type, strategy, outcome, success>>)
    /\ ret' = clock + 1
    /\ UNCHANGED <<proposals, agent_metrics, voting_history, debate_history,
                   tally, replicas, serverVars>>

\* orchestrator.memory.get_relevant_context(mission_type)
GetRelevantContext(mission_type) ==
    /\ call' = Call("get_relevant_context", <<mission_type>>)
    /\ ret' = get_relevant_context(memory, mission_type)
    /\ UNCHANGED <<proposals, agent_metrics, memory, voting_history,
                   debate_history, clock, tally, replicas, serverVars>>

\* the legacy red_strategist.make_final_decision(vote_results)
MakeFinalDecision(vote_results) ==
    /\ call' = Call("make_final_decision", <<vote_results>>)
    /\ ret' = make_final_decision(vote_results)
    /\ UNCHANGED <<proposals, agent_metrics, memory, voting_history,
                   debate_history, clock, tally, replicas, serverVars>>

(***************************************************************************)
(* SpecDecision: make_final_decision applied to vote results.              *)
(***************************************************************************)
\* the consensus strengths tried are the multiples of 1/DecisionScale
DecisionScale == 100

\* the results the legacy calculate_weighted_votes hands over: a winner and
\* a consensus strength, a winner without proposal text, or the error marker
VoteResultInputs ==
    {[winner |-> w, consensus_strength |-> Rat(k, DecisionScale)] :
        w \in {[proposal_text |-> "Exploit the web server"],
               [agent_name |-> "Scanner"]},
        k \in 0..DecisionScale}
    \cup {[error |-> "No proposals to vote on"]}

NextDecision == \E vote_results \in VoteResultInputs :
                    MakeFinalDecision(vote_results)

SpecDecision == Init /\ [][NextDecision]_vars

\* the consensus strength make_final_decision was called with, when the last
\* call was make_final_decision on a result that carries one
DecidedOnConsensus ==
    /\ call.op = "make_final_decision"
    /\ "consensus_strength" \in DOMAIN call.args[1]

\* C3: make_final_decision approves exactly when consensus_strength > 0.4 and
\* overrides exactly when consensus_strength < 0.3, so that at 0.4 it does not
\* approve, at 0.3 it does not override, and on [0.3, 0.4] it does neither;
\* approved and override are never both true.
C3_DecisionThresholds ==
    DecidedOnConsensus =>
        LET c == call.args[1].consensus_strength
        IN  /\ ret.approved <=> (10 * c[1] > 4 * c[2])
            /\ ret.override <=> (10 * c[1] < 3 * c[2])
            /\ (3 * c[2] <= 10 * c[1] /\ 10 * c[1] <= 4 * c[2])
                   => (~ret.approved /\ ~ret.override)
            /\ ~(ret.approved /\ ret.override)

\* a decision taken at exactly 0.4: neither approved nor overridden
C3_Witness ==
    /\ DecidedOnConsensus
    /\ call.args[1].consensus_strength = Rat(4, 10)
    /\ ~ret.approved
    /\ ~ret.override

(***************************************************************************)
(* SpecMemory: the orchestrator's AgentMemory under add_mission and        *)
(* get_relevant_context.                                                   *)
(***************************************************************************)
\* add_mission calls in one run
MaxAdds == 4

MissionTypes == {"recon", "exfil"}

\* strategy texts, the empty text among them
Strategies == {"", "phishing"}

NextMemory ==
    \/ \E mission_type \in MissionTypes, strategy \in Strategies, success \in BOOLEAN :
          /\ clock < MaxAdds
          /\ AddMission(mission_type, strategy, "done", success)
    \/ \E mission_type \in MissionTypes : GetRelevantContext(mission_type)

SpecMemory == Init /\ [][NextMemory]_vars

\* no entry of the successful or the failed list is of mission_type
NoExperience(mission_type) ==
    /\ \A i \in 1..Len(memory.successful_strategies) :
          memory.successful_strategies[i].mission_type # mission_type
    /\ \A i \in 1..Len(memory.failed_strategies) :
          memory.failed_strategies[i].mission_type # mission_type

\* C10: get_relevant_context never returns the empty string, and returns the
\* sentinel "No prior experience." when the memory holds no successful and no
\* failed entry of the requested mission type.
C10_ContextNeverEmpty ==
    call.op = "get_relevant_context" =>
        /\ ret # ""
        /\ NoExperience(call.args[1]) => ret = "No prior experience."

\* the sentinel returned by a memory that holds missions of another type only
C10_Witness ==
    /\ call.op = "get_relevant_context"
    /\ memory.mission_history # <<>>
    /\ NoExperience(call.args[1])
    /\ ret = "No prior experience."

(***************************************************************************)
(* SpecMission: registration and mission reports with every argument of    *)
(* update_metrics_after_mission varied, for both scanners, registered or   *)
(* not.                                                                    *)
(***************************************************************************)
\* missions reported for registered agents in one run, all agents together
MaxMissions == 4

\* the rows of DEFAULT_AGENTS for the two scanners
DefaultAgents ==
    {<<"RED_SCANNER", "Scanner", "RED", "analytical">>,
     <<"BLUE_SCANNER", "Scanner", "BLUE", "cautious">>}

OtherAgent(agent_id) ==
    IF agent_id = "RED_SCANNER" THEN "BLUE_SCANNER" ELSE "RED_SCANNER"

\* what a mission of agent_id reports besides its outcome: response_time_ms,
\* tokens_used and collaborators (a quick solo mission without token count,
\* or a slow one with the other scanner)
MissionReports(agent_id) ==
    {<<100, 0, <<>>>>, <<250, 1500, <<OtherAgent(agent_id)>>>>}

\* the missions reported so far for registered agents
MissionsReported ==
    LET a == "RED_SCANNER"
        b == "BLUE_SCANNER"
    IN  tally[a].calls + tally[b].calls

Register == \E row \in DefaultAgents : RegisterAgent(row[1], row[2], row[3], row[4])

ReportMission ==
    \E agent_id \in AgentIds, success \in BOOLEAN :
        \E report \in MissionReports(agent_id) :
            /\ MissionsReported < MaxMissions
            /\ UpdateMetricsAfterMission(agent_id, success, report[1], "recon", Rat(9, 10), report[2], report[3])

NextMission == Register \/ ReportMission

SpecMission == Init /\ [][NextMission]_vars

\* the step is a call of update_metrics_after_mission
IsMissionReport == call'.op = "update_metrics_after_mission"

\* the record of a registered agent after the report in call', against its
\* record before: every field reflects the report
ReportApplied(old, new, args) ==
    LET success == args[2]
        n == old.total_missions + 1
        s == IF success THEN 1 ELSE 0
    IN  /\ new.total_missions = n
        /\ new.success_rate[1] * n * old.success_rate[2]
             = new.success_rate[2] * ((n - 1) * old.success_rate[1] + s * old.success_rate[2])
        /\ new.avg_response_time_ms[1] * n * old.avg_response_time_ms[2]
             = new.avg_response_time_ms[2]
                 * ((n - 1) * old.avg_response_time_ms[1] + args[3] * old.avg_response_time_ms[2])
        /\ args[4] \in DOMAIN new.specialization_scores
        /\ new.specialization_scores[args[4]]
             # DictGet(old.specialization_scores, args[4], Zero)
        /\ new.confidence_history = Append(old.confidence_history, <<args[5], success>>)
        /\ \A i \in 1..Len(args[7]) :
              /\ args[7][i] \in DOMAIN new.collaboration_scores
              /\ new.collaboration_scores[args[7][i]]
                   # DictGet(old.collaboration_scores, args[7][i], Rat(1, 2))
        /\ new.total_tokens_used = old.total_tokens_used + args[6]
        /\ new.total_cost_usd = Add(old.total_cost_usd, Rat(args[6], 1000000))

\* C7: update_metrics_after_mission for an agent_id that is not registered
\* changes nothing (no record is created, no record of another agent changes)
\* and returns normally; for a registered agent the mission count, success
\* rate, response time, specialization, calibration history, collaboration
\* scores and cost are all updated by the one call, and no other record
\* changes.
C7_ReportAllOrNothing ==
    [][IsMissionReport =>
        LET agent_id == call'.args[1]
        IN  /\ ret' = None
            /\ UNCHANGED <<proposals, memory, voting_history, debate_history>>
            /\ DOMAIN agent_metrics' = DOMAIN agent_metrics
            /\ \A other \in DOMAIN agent_metrics \ {agent_id} :
                  agent_metrics'[other] = agent_metrics[other]
            /\ agent_id \in DOMAIN agent_metrics =>
                  ReportApplied(agent_metrics[agent_id], agent_metrics'[agent_id], call'.args)
      ]_vars

\* a report for an agent that is not registered, made while the other
\* scanner is registered and has missions on record
C7_Witness ==
    /\ call.op = "update_metrics_after_mission"
    /\ call.args[1] \notin DOMAIN agent_metrics
    /\ call.args[6] > 0
    /\ call.args[7] # <<>>
    /\ \E other \in DOMAIN agent_metrics : agent_metrics[other].total_missions > 0

\* C8: once k >= 1 missions have been reported for a registered agent,
\* total_missions = k, success_rate = (successful ones) / k, which lies in
\* [0, 1] and owes nothing to the initial 0.5, and avg_response_time_ms is the
\* arithmetic mean of the k response times.
C8_RunningMeans ==
    \A agent_id \in DOMAIN agent_metrics :
        LET m == agent_metrics[agent_id]
            k == tally[agent_id].calls
        IN  /\ m.total_missions = k
            /\ k >= 1 =>
                  /\ m.success_rate[1] * k = tally[agent_id].successes * m.success_rate[2]
                  /\ 0 <= m.success_rate[1] /\ m.success_rate[1] <= m.success_rate[2]
                  /\ m.avg_response_time_ms[1] * k = tally[agent_id].time * m.avg_response_time_ms[2]

\* three missions of one agent, one of them successful, 100 + 100 + 250 ms
C8_Witness ==
    /\ "RED_SCANNER" \in DOMAIN agent_metrics
    /\ tally["RED_SCANNER"] = [calls |-> 3, successes |-> 1, time |-> 450]
    /\ agent_metrics["RED_SCANNER"].success_rate = <<1, 3>>
    /\ agent_metrics["RED_SCANNER"].avg_response_time_ms = <<150, 1>>

\* ---------------------------------------------------------------------------
\* One agent reporting many missions: long enough for a specialization score
\* to reach either clamp (7 successes, 6 failures of one type).

MaxDeepMissions == 7

DeepAgent == "RED_SCANNER"

ReportDeep ==
    \E success \in BOOLEAN, mission_type \in MissionTypes :
        /\ DeepAgent \in DOMAIN agent_metrics
        /\ agent_metrics[DeepAgent].total_missions < MaxDeepMissions
        /\ UpdateMetricsAfterMission(DeepAgent, success, 100, mission_type, Rat(9, 10), 0, <<>>)

NextDeep == Register \/ ReportDeep

SpecDeep == Init /\ [][NextDeep]_vars

SpecializationFloor == Rat(-1, 10)

SpecializationCeiling == Rat(3, 10)

SpecializationInRange ==
    \A agent_id \in DOMAIN agent_metrics :
        \A mission_type \in DOMAIN agent_metrics[agent_id].specialization_scores :
            LET score == agent_metrics[agent_id].specialization_scores[mission_type]
            IN  Le(SpecializationFloor, score) /\ Le(score, SpecializationCeiling)

\* the report in call' moved the score of its mission type by +0.05 or -0.02
\* from the score before (0 when the type was new), clamped to the range
SpecializationStep ==
    IsMissionReport /\ call'.args[1] \in DOMAIN agent_metrics =>
        LET agent_id == call'.args[1]
            mission_type == call'.args[4]
            before == DictGet(agent_metrics[agent_id].specialization_scores, mission_type, Zero)
            moved == Add(before, IF call'.args[2] THEN Rat(1, 20) ELSE Rat(-1, 50))
            after == agent_metrics'[agent_id].specialization_scores[mission_type]
        IN  /\ after = (IF Gt(moved, SpecializationCeiling) THEN SpecializationCeiling
                        ELSE IF Lt(moved, SpecializationFloor) THEN SpecializationFloor
                        ELSE moved)
            /\ get_specialization_bonus(agent_metrics'[agent_id], mission_type) = after

\* C6: every stored specialization score lies in [-0.1, 0.3]; a mission moves
\* the score of its type by +0.05 on success and -0.02 on failure, starting
\* from 0, and the result is clamped to that range.
C6_SpecializationClamped ==
    []SpecializationInRange /\ [][SpecializationStep]_vars

\* seven successes of one type: 0.35 before clamping, 0.3 stored
C6_Witness ==
    /\ DeepAgent \in DOMAIN agent_metrics
    /\ agent_metrics[DeepAgent].total_missions = 7
    /\ agent_metrics[DeepAgent].success_rate = One
    /\ DictGet(agent_metrics[DeepAgent].specialization_scores, "recon", Zero) = Rat(3, 10)

\* ---------------------------------------------------------------------------
\* Two fresh orchestrators (replicas[1], replicas[2] are their agent_metrics)
\* fed the same (confidence, success) pairs; what else a report carries
\* (response time, mission type, tokens) differs between the two.

MaxFeed == 5

ReplayAgent == <<"BLUE_SCANNER", "Scanner", "BLUE", "cautious">>

ConfidencePairs == {<<Rat(9, 10), TRUE>>, <<Rat(9, 10), FALSE>>, <<Rat(1, 5), TRUE>>}

ReplayTokens == {0, 1500}

ReplayRegister(i) ==
    /\ replicas' = [replicas EXCEPT ![i] =
                      register_agent(@, ReplayAgent[1], ReplayAgent[2], ReplayAgent[3], ReplayAgent[4])]
    /\ call' = Call("register_agent", <<i, ReplayAgent[1]>>)
    /\ ret' = None
    /\ UNCHANGED <<proposals, agent_metrics, memory, voting_history, debate_history, clock, tally, serverVars>>

ReplayFeed(pair, tokens_used) ==
    /\ \A i \in 1..2 : ReplayAgent[1] \in DOMAIN replicas[i]
    /\ replicas[1][ReplayAgent[1]].total_missions < MaxFeed
    /\ replicas' =
         <<update_metrics_after_mission(replicas[1], ReplayAgent[1], pair[2], 100, "recon", pair[1], 0, <<>>),
           update_metrics_after_mission(replicas[2], ReplayAgent[1], pair[2], 250, "exfil", pair[1], tokens_used, <<"RED_SCANNER">>)>>
    /\ call' = Call("update_metrics_after_mission", <<ReplayAgent[1], pair[2], pair[1]>>)
    /\ ret' = None
    /\ UNCHANGED <<proposals, agent_metrics, memory, voting_history, debate_history, clock, tally, serverVars>>

NextReplay ==
    \/ \E i \in 1..2 : ReplayRegister(i)
    \/ \E pair \in ConfidencePairs, tokens_used \in ReplayTokens : ReplayFeed(pair, tokens_used)

SpecReplay == Init /\ [][NextReplay]_vars

BothRegistered == \A i \in 1..2 : ReplayAgent[1] \in DOMAIN replicas[i]

\* C9: two fresh orchestrators that registered the same agent and received
\* the same (confidence, success) pairs hold the same calibration_score and
\* the same confidence_history after every prefix of the sequence.
C9_ReplayDeterministic ==
    BothRegistered =>
        LET first == replicas[1][ReplayAgent[1]]
            second == replicas[2][ReplayAgent[1]]
        IN  /\ first.calibration_score = second.calibration_score
            /\ first.confidence_history = second.confidence_history

\* five pairs fed, so the calibration score has been computed, while the two
\* records differ in what is not calibration
C9_Witness ==
    /\ BothRegistered
    /\ Len(replicas[1][ReplayAgent[1]].confidence_history) = 5
    /\ replicas[1][ReplayAgent[1]].calibration_score # Rat(1, 2)
    /\ replicas[1][ReplayAgent[1]].total_tokens_used # replicas[2][ReplayAgent[1]].total_tokens_used
    /\ replicas[1][ReplayAgent[1]].avg_response_time_ms # replicas[2][ReplayAgent[1]].avg_response_time_ms

\* ---------------------------------------------------------------------------
\* A voting round: proposals are added, voted on, summarised and cleared,
\* while agents are registered and a mission is reported.

MaxProposals == 2

MaxVotes == 1

MaxRoundMissions == 1

\* the two proposals of the worked example
ExampleA ==
    [agent_id |-> "RED_SCANNER", agent_name |-> "Scanner", team |-> "RED",
     proposal_text |-> "exploit", confidence |-> Rat(9, 10),
     estimated_impact |-> 80, personality |-> "analytical",
     specialization_bonus |-> Zero]

ExampleB ==
    [agent_id |-> "BLUE_SCANNER", agent_name |-> "Scanner", team |-> "BLUE",
     proposal_text |-> "patch", confidence |-> Rat(4, 10),
     estimated_impact |-> 90, personality |-> "analytical",
     specialization_bonus |-> Zero]

ExampleProposals == {ExampleA, ExampleB}

Propose ==
    \E p \in ExampleProposals :
        /\ Len(proposals) < MaxProposals
        /\ AddProposal(p)

Vote ==
    /\ proposals = <<>> \/ Len(voting_history) < MaxVotes
    /\ CalculateWeightedVotes

ReportRound ==
    /\ tally["RED_SCANNER"].calls < MaxRoundMissions
    /\ UpdateMetricsAfterMission("RED_SCANNER", TRUE, 100, "recon", Rat(9, 10), 0, <<>>)

Next ==
    \/ Register
    \/ ReportRound
    \/ Propose
    \/ Vote
    \/ EnsembleDecision
    \/ ClearProposals

Spec == Init /\ [][Next]_vars

\* the step is a vote or an ensemble summary taken on an empty proposal list
IsEmptyRoundCall ==
    /\ call'.op \in {"calculate_weighted_votes", "ensemble_decision"}
    /\ proposals = <<>>

\* C2: on an empty proposal list (initially or after clear_proposals)
\* calculate_weighted_votes and ensemble_decision return a result with an
\* "error" entry and without winner, consensus or mean entries, and leave
\* proposals, agent_metrics and voting_history as they were.
C2_EmptyRoundMarker ==
    [][IsEmptyRoundCall =>
        /\ "error" \in DOMAIN ret'
        /\ DOMAIN ret' \cap {"winner", "winner_score", "consensus_strength",
                             "mean_impact", "mean_confidence"} = {}
        /\ UNCHANGED <<proposals, agent_metrics, voting_history>>
      ]_vars

\* a vote on the list emptied by clear_proposals, after a vote that counted
C2_Witness ==
    /\ call.op = "calculate_weighted_votes"
    /\ proposals = <<>>
    /\ voting_history # <<>>
    /\ agent_metrics # EmptyDict
    /\ ret.error = "No proposals to vote on"

\* the vote just taken was on the example round: A then B, neither agent
\* registered
ExampleRound ==
    /\ call.op = "calculate_weighted_votes"
    /\ proposals = <<ExampleA, ExampleB>>
    /\ DOMAIN agent_metrics = {}

\* C5 as stated: in the example round score_A = 54.8, score_B = 38.7, A wins
\* and consensus_strength = 0.586.
C5_ExampleAsStated ==
    ExampleRound =>
        /\ ret.winner.agent_id = ExampleA.agent_id
        /\ ret.all_votes[1].score = Rat(548, 10)
        /\ ret.all_votes[2].score = Rat(387, 10)
        /\ ret.consensus_strength = Rat(586, 1000)

\* C5: in the example round (A: confidence 0.9, impact 80; B: confidence 0.4,
\* impact 90; both analytical, specialization_bonus 0, neither registered) A
\* wins with score_A = 43.2 against score_B = 32.85, and consensus_strength
\* = 43.2 / 76.05 rounded to 0.568.
C5_ExampleScores ==
    ExampleRound =>
        /\ ret.winner.agent_id = ExampleA.agent_id
        /\ ret.winner_score = Rat(432, 10)
        /\ ret.all_votes[1].agent_id = ExampleA.agent_id
        /\ ret.all_votes[1].score = Rat(432, 10)
        /\ ret.all_votes[2].agent_id = ExampleB.agent_id
        /\ ret.all_votes[2].score = Rat(3285, 100)
        /\ ret.consensus_strength = Rat(568, 1000)
        /\ ret.consensus_strength = Round(Div(Rat(432, 10), Rat(7605, 100)), 3)

C5_Witness ==
    /\ ExampleRound
    /\ ret.total_proposals = 2
    /\ voting_history = <<ret>>

\* ---------------------------------------------------------------------------
\* Debates over the proposals of a round.

MaxDebaters == 3

MaxDebates == 1

Debater ==
    \E p \in ExampleProposals :
        /\ Len(proposals) < MaxDebaters
        /\ AddProposal(p)

Debate ==
    /\ Len(proposals) < 2 \/ Len(debate_history) < MaxDebates
    /\ GenerateDebate

NextDebate == Debater \/ Debate \/ ClearProposals

SpecDebate == Init /\ [][NextDebate]_vars

\* the number of rounds of one type in a debate
RoundsOfType(rounds, round_type) ==
    Cardinality({i \in 1..Len(rounds) : rounds[i].round_type = round_type})

\* C4: generate_debate returns the empty list for fewer than 2 proposals;
\* for n >= 2 proposals it returns n + n + n + min(n, 2) rounds: n openings,
\* n challenges, n rebuttals and 2 closings.
C4_DebateLength ==
    call.op = "generate_debate" =>
        LET n == Len(proposals)
        IN  IF n < 2 THEN ret = <<>>
            ELSE /\ Len(ret) = n + n + n + (IF n < 2 THEN n ELSE 2)
                 /\ RoundsOfType(ret, "opening") = n
                 /\ RoundsOfType(ret, "challenge") = n
                 /\ RoundsOfType(ret, "rebuttal") = n
                 /\ RoundsOfType(ret, "closing") = 2

\* a debate over three proposals: 11 rounds
C4_Witness ==
    /\ call.op = "generate_debate"
    /\ Len(proposals) = 3
    /\ Len(ret) = 11
    /\ debate_history # <<>>

\* ---------------------------------------------------------------------------
\* Scoring at the ends of the input ranges: a ballot is assembled from
\* proposals with confidence 0 or 1, impact 0 or 100 and bonus -0.1 or 0.3
\* while RED_SCANNER's record is driven to success rate and calibration 0 or
\* 1, and is then voted on.

MaxBallot == 2

MaxScoreMissions == 5

ScoreLow ==
    [agent_id |-> "RED_SCANNER", agent_name |-> "Scanner", team |-> "RED",
     proposal_text |-> "probe", confidence |-> Zero,
     estimated_impact |-> 100, personality |-> "cautious",
     specialization_bonus |-> Rat(-1, 10)]

ScoreTop ==
    [agent_id |-> "RED_SCANNER", agent_name |-> "Scanner", team |-> "RED",
     proposal_text |-> "exploit", confidence |-> One,
     estimated_impact |-> 100, personality |-> "aggressive",
     specialization_bonus |-> Rat(3, 10)]

ScoreHigh ==
    [agent_id |-> "BLUE_SCANNER", agent_name |-> "Scanner", team |-> "BLUE",
     proposal_text |-> "patch", confidence |-> One,
     estimated_impact |-> 100, personality |-> "strategic",
     specialization_bonus |-> Rat(3, 10)]

ScoreNil ==
    [agent_id |-> "BLUE_SCANNER", agent_name |-> "Scanner", team |-> "BLUE",
     proposal_text |-> "wait", confidence |-> Rat(1, 2),
     estimated_impact |-> 0, personality |-> "analytical",
     specialization_bonus |-> Zero]

ScoreProposals == {ScoreLow, ScoreTop, ScoreHigh, ScoreNil}

\* the ballot is assembled and the records settle before the first vote
Assembling == voting_history = <<>>

RegisterScore == Assembling /\ Register

ProposeScore ==
    \E p \in ScoreProposals :
        /\ Assembling
        /\ Len(proposals) < MaxBallot
        /\ AddProposal(p)

ReportScore ==
    \E success \in BOOLEAN :
        /\ Assembling
        /\ tally["RED_SCANNER"].calls < MaxScoreMissions
        /\ UpdateMetricsAfterMission("RED_SCANNER", success, 100, "recon", One, 0, <<>>)

NextScore == RegisterScore \/ ReportScore \/ ProposeScore \/ Vote

SpecScore == Init /\ [][NextScore]_vars

\* C1: on a non-empty proposal list (confidence in [0, 1], impact in 0..100,
\* specialization_bonus in [-0.1, 0.3]), whatever registrations and mission
\* reports came before, calculate_weighted_votes returns a consensus_strength
\* in [0, 1] and an all_votes ranking, one entry per proposal, whose scores
\* never increase down the list.
C1_ConsensusAndRanking ==
    call.op = "calculate_weighted_votes" /\ proposals # <<>> =>
        /\ Le(Zero, ret.consensus_strength)
        /\ Le(ret.consensus_strength, One)
        /\ Len(ret.all_votes) = Len(proposals)
        /\ \A i \in 1..(Len(ret.all_votes) - 1) :
              Ge(ret.all_votes[i].score, ret.all_votes[i + 1].score)

\* the lowest score a proposal in range can get (success rate 0, calibration
\* 0, confidence weight 0.1, bonus -0.1: 1.5 at impact 100) ranked second
C1_Witness ==
    /\ call.op = "calculate_weighted_votes"
    /\ proposals = <<ScoreLow, ScoreTop>>
    /\ "RED_SCANNER" \in DOMAIN agent_metrics
    /\ agent_metrics["RED_SCANNER"].success_rate = Zero
    /\ agent_metrics["RED_SCANNER"].calibration_score = Zero
    /\ ret.all_votes[1].proposal_text = "exploit"
    /\ ret.all_votes[2].score = Rat(3, 2)
    /\ Lt(Zero, ret.consensus_strength) /\ Lt(ret.consensus_strength, One)

\* ---------------------------------------------------------------------------
\* An AgentMemory constructed with a small max_history, so that add_mission
\* evicts.

TrimCapacity == 2

MaxTrimAdds == 4

InitTrim ==
    /\ proposals = <<>>
    /\ agent_metrics = EmptyDict
    /\ memory = AgentMemory(TrimCapacity)
    /\ voting_history = <<>>
    /\ debate_history = <<>>
    /\ clock = 0
    /\ call = Call("__init__", <<TrimCapacity>>)
    /\ ret = None
    /\ tally = [a \in AgentIds |-> [calls |-> 0, successes |-> 0, time |-> 0]]
    /\ replicas = <<EmptyDict, EmptyDict>>
    /\ strategists = [team \in {"RED", "BLUE"} |-> [sub_agents |-> <<>>, coordination_history |-> <<>>]]
    /\ reflection_history = <<>>
    /\ game_pc = "WAIT_START"
    /\ inbox = <<>>
    /\ broadcasts = <<>>
    /\ sent = [commands |-> 0, noise |-> 0]

NextTrim ==
    \E mission_type \in MissionTypes, strategy \in Strategies, success \in BOOLEAN :
        /\ clock < MaxTrimAdds
        /\ AddMission(mission_type, strategy, "done", success)

SpecTrim == InitTrim /\ [][NextTrim]_vars

\* every entry ever added: the successful and the failed list are never cut
EntriesAdded ==
    {memory.successful_strategies[i] : i \in 1..Len(memory.successful_strategies)}
        \cup {memory.failed_strategies[i] : i \in 1..Len(memory.failed_strategies)}

\* C11: after k add_mission calls mission_history holds min(k, max_history)
\* entries: the most recent ones of the k added, oldest first.
C11_HistoryKeepsMostRecent ==
    LET history == memory.mission_history
        k == clock
        kept == IF k < memory.max_history THEN k ELSE memory.max_history
    IN  /\ Len(history) = kept
        /\ Len(history) <= memory.max_history
        /\ Cardinality(EntriesAdded) = k
        /\ \A i \in 1..kept :
              /\ history[i].id = k - kept + i
              /\ history[i] \in EntriesAdded

\* four entries added to a memory of two: the third and the fourth are kept
C11_Witness ==
    /\ clock = 4
    /\ memory.max_history = 2
    /\ Len(memory.mission_history) = 2
    /\ memory.mission_history[1].id = 3
    /\ memory.mission_history[2].id = 4
    /\ memory.mission_history[1].success # memory.mission_history[2].success

\* ---------------------------------------------------------------------------
\* Rounds that are cleared: votes, debates and memory entries accumulate
\* while the proposal list is emptied between rounds.

MaxClearAdds == 1

RecordMission ==
    /\ clock < MaxClearAdds
    /\ AddMission("recon", "phishing", "done", TRUE)

\* the two example agents propose in turn
ProposeInTurn ==
    /\ Len(proposals) < MaxProposals
    /\ AddProposal(IF Len(proposals) % 2 = 0 THEN ExampleA ELSE ExampleB)

\* a registration under an id with another name, team and personality
RegisterAgain ==
    \E agent_id \in AgentIds : RegisterAgent(agent_id, "Renamed", "BLUE", "aggressive")

NextClear ==
    \/ Register
    \/ RegisterAgain
    \/ ReportRound
    \/ ProposeInTurn
    \/ Vote
    \/ Debate
    \/ RecordMission
    \/ ClearProposals

SpecClear == Init /\ [][NextClear]_vars

\* C12: clear_proposals empties the proposal list and leaves agent_metrics,
\* the memory, voting_history and debate_history as they were; the
\* calculate_weighted_votes that follows it returns the empty-input marker
\* and changes neither the metrics nor the voting history.
C12_ClearFrame ==
    [][/\ call'.op = "clear_proposals" =>
            /\ proposals' = <<>>
            /\ ret' = None
            /\ UNCHANGED <<agent_metrics, memory, voting_history, debate_history>>
       /\ call.op = "clear_proposals" /\ call'.op = "calculate_weighted_votes" =>
            /\ ret'.error = "No proposals to vote on"
            /\ ret'.all_votes = <<>>
            /\ UNCHANGED <<proposals, agent_metrics, memory, voting_history, debate_history>>
      ]_vars

\* the empty-input marker after a round that was voted on, debated and
\* cleared, with a mission on an agent's record and an entry in the memory
C12_Witness ==
    /\ call.op = "calculate_weighted_votes"
    /\ proposals = <<>>
    /\ "error" \in DOMAIN ret
    /\ Len(voting_history) = 1
    /\ Len(debate_history) = 1
    /\ Len(memory.mission_history) = 1
    /\ "RED_SCANNER" \in DOMAIN agent_metrics
    /\ agent_metrics["RED_SCANNER"].total_missions = 1

\* the record register_agent creates
FreshRecord(args) == AgentMetrics(args[1], args[2], args[3], args[4])

\* C13: agent_metrics holds one record per agent_id, filed under that id;
\* register_agent creates the record on the first registration of an id
\* only, a repeated registration (whatever name, team or personality it
\* gives) changes nothing, and no operation removes a record.
C13_OneRecordPerAgent ==
    [][/\ DOMAIN agent_metrics \subseteq DOMAIN agent_metrics'
       /\ \A agent_id \in DOMAIN agent_metrics' :
             agent_metrics'[agent_id].agent_id = agent_id
       /\ call'.op = "register_agent" =>
             IF call'.args[1] \in DOMAIN agent_metrics
             THEN agent_metrics' = agent_metrics
             ELSE /\ DOMAIN agent_metrics' = DOMAIN agent_metrics \cup {call'.args[1]}
                  /\ agent_metrics'[call'.args[1]] = FreshRecord(call'.args)
                  /\ \A other \in DOMAIN agent_metrics :
                        agent_metrics'[other] = agent_metrics[other]
       /\ call'.op # "register_agent" => DOMAIN agent_metrics' = DOMAIN agent_metrics
      ]_vars

\* a second registration of RED_SCANNER under another name, after a mission:
\* the record keeps its name, personality and statistics
C13_Witness ==
    /\ call.op = "register_agent"
    /\ call.args = <<"RED_SCANNER", "Renamed", "BLUE", "aggressive">>
    /\ agent_metrics["RED_SCANNER"].agent_name = "Scanner"
    /\ agent_metrics["RED_SCANNER"].personality = "analytical"
    /\ agent_metrics["RED_SCANNER"].total_missions = 1
    /\ agent_metrics["RED_SCANNER"].success_rate = One

\* the score the formula gives proposal p when the records are metrics,
\* written out term by term
FormulaScore(p, metrics) ==
    LET registered == p.agent_id \in DOMAIN metrics
        performance == IF registered THEN metrics[p.agent_id].success_rate ELSE Rat(1, 2)
        calibration == IF registered THEN metrics[p.agent_id].calibration_score ELSE Rat(1, 2)
        biased == Add(p.confidence, PERSONALITY_MODIFIERS[p.personality].confidence_bias)
        confidence == IF Lt(biased, Rat(1, 10)) THEN Rat(1, 10)
                      ELSE IF Gt(biased, One) THEN One ELSE biased
        weighted == Add(Add(Mul(performance, Rat(1, 4)), Mul(confidence, Rat(7, 20))),
                        Add(Mul(calibration, Rat(1, 5)), Mul(p.specialization_bonus, Rat(1, 5))))
    IN  Mul(weighted, FromInt(p.estimated_impact))

\* the entries of all_votes that are for proposal p
VotesFor(votes, p) ==
    {i \in 1..Len(votes) :
        /\ votes[i].agent_id = p.agent_id
        /\ votes[i].proposal_text = p.proposal_text}

\* C14: every proposal of a vote is scored (performance*0.25 +
\* confidence_weight*0.35 + calibration*0.20 + specialization_bonus*0.20) *
\* estimated_impact, with confidence_weight = confidence + confidence_bias
\* clamped to [0.1, 1], performance and calibration the agent's success_rate
\* and calibration_score when it is registered and 0.5 each when it is not;
\* the vote adds no record to agent_metrics.
C14_ScoreFormula ==
    [][call'.op = "calculate_weighted_votes" /\ proposals # <<>> =>
        /\ agent_metrics' = agent_metrics
        /\ ret'.winner_score = Round(FormulaScore(ret'.winner, agent_metrics), 2)
        /\ \A i \in 1..Len(proposals) :
              \E j \in VotesFor(ret'.all_votes, proposals[i]) :
                  ret'.all_votes[j].score = Round(FormulaScore(proposals[i], agent_metrics), 2)
      ]_vars

\* a registered agent at success rate 1 and calibration 1 scoring 86 against
\* an unregistered one scoring 63.5 on the defaults
C14_Witness ==
    /\ call.op = "calculate_weighted_votes"
    /\ proposals = <<ScoreHigh, ScoreTop>>
    /\ DOMAIN agent_metrics = {"RED_SCANNER"}
    /\ agent_metrics["RED_SCANNER"].total_missions = 5
    /\ ret.all_votes[1].proposal_text = "exploit"
    /\ ret.all_votes[1].score = FromInt(86)
    /\ ret.all_votes[2].score = Rat(127, 2)

\* the proposal texts of the entries of seq whose score is score, in order
TextsScoring(seq, metrics, score) ==
    LET tied == SelectSeq(seq, LAMBDA p : FormulaScore(p, metrics) = score)
    IN  List([i \in 1..Len(tied) |-> tied[i].proposal_text])

\* the position of the first proposal no other proposal outscores
FirstBest(props, metrics) ==
    CHOOSE i \in 1..Len(props) :
        /\ \A j \in 1..Len(props) :
              Le(FormulaScore(props[j], metrics), FormulaScore(props[i], metrics))
        /\ \A j \in 1..(i - 1) :
              Lt(FormulaScore(props[j], metrics), FormulaScore(props[i], metrics))

\* C15: the winner is a proposal of maximal score; proposals with equal
\* scores stand in all_votes in the order they were added, so the winner is
\* the earliest added of the top-scoring proposals.
C15_StableRanking ==
    call.op = "calculate_weighted_votes" /\ proposals # <<>> =>
        /\ \A i \in 1..Len(proposals) :
              /\ Le(FormulaScore(proposals[i], agent_metrics),
                    FormulaScore(ret.winner, agent_metrics))
              /\ TextsScoring(ret.all_votes, agent_metrics,
                              FormulaScore(proposals[i], agent_metrics))
                   = TextsScoring(proposals, agent_metrics,
                                  FormulaScore(proposals[i], agent_metrics))
        /\ ret.winner.proposal_text
             = proposals[FirstBest(proposals, agent_metrics)].proposal_text
        /\ ret.all_votes[1].proposal_text = ret.winner.proposal_text

\* two different proposals tied at 63.5: the one added first wins
C15_Witness ==
    /\ call.op = "calculate_weighted_votes"
    /\ proposals = <<ScoreHigh, ScoreTop>>
    /\ FormulaScore(ScoreHigh, agent_metrics) = FormulaScore(ScoreTop, agent_metrics)
    /\ ret.winner.proposal_text = ScoreHigh.proposal_text
    /\ ret.all_votes[2].proposal_text = ScoreTop.proposal_text
    /\ ret.all_votes[1].score = ret.all_votes[2].score

\* the scores of the round sum to 0
ZeroTotal(props, metrics) ==
    SumRat(List([i \in 1..Len(props) |-> FormulaScore(props[i], metrics)])) = Zero

\* C16: when the scores of a non-empty round sum to 0 (every estimated_impact
\* 0), calculate_weighted_votes returns consensus_strength 0, a winner (the
\* first proposal), and a vote_distribution with a share of 0 for every
\* agent name of the round.
C16_ZeroTotal ==
    call.op = "calculate_weighted_votes" /\ proposals # <<>>
            /\ ZeroTotal(proposals, agent_metrics) =>
        /\ ret.consensus_strength = Zero
        /\ ret.winner.proposal_text = proposals[1].proposal_text
        /\ ret.winner_score = Zero
        /\ Len(ret.all_votes) = Len(proposals)
        /\ DOMAIN ret.vote_distribution
             = {proposals[i].agent_name : i \in 1..Len(proposals)}
        /\ \A name \in DOMAIN ret.vote_distribution : ret.vote_distribution[name] = Zero
        /\ voting_history # <<>> /\ voting_history[Len(voting_history)] = ret

\* a vote on two proposals of impact 0
C16_Witness ==
    /\ call.op = "calculate_weighted_votes"
    /\ proposals = <<ScoreNil, ScoreNil>>
    /\ ZeroTotal(proposals, agent_metrics)
    /\ ret.consensus_strength = Zero
    /\ ret.vote_distribution = [Scanner |-> Zero]

(***************************************************************************)
(* The legacy orchestrator of backend/agent_orchestration.py, the one       *)
(* main.py imports.  In SpecLegacy the variables proposals and              *)
(* agent_metrics are the fields of an agent_orchestration.VotingOrchestrator.*)
(* A legacy proposal is the record [agent_id, agent_name, proposal_text,    *)
(* confidence, reasoning, estimated_impact, vote_weight, personality].  An  *)
(* exception that leaves the method is returned as [raised |-> its type].   *)
(***************************************************************************)
\* AgentMetrics(agent_id=agent_id) of the legacy module
LegacyAgentMetrics(agent_id) ==
    [agent_id |-> agent_id,
     success_rate |-> Zero,
     total_missions |-> 0,
     avg_response_time |-> Zero,
     creativity_score |-> Zero,
     confidence_avg |-> Zero,
     specialization |-> "General"]

\* metrics.success_rate if metrics.total_missions > 0 else 0.5
legacy_performance_weight(p, metrics) ==
    LET record == DictGet(metrics, p.agent_id, LegacyAgentMetrics(p.agent_id))
    IN  IF record.total_missions > 0 THEN record.success_rate ELSE Rat(1, 2)

\* total_score
legacy_score(p, metrics) ==
    Mul(Add(Mul(legacy_performance_weight(p, metrics), Rat(4, 10)),
            Mul(p.confidence, Rat(6, 10))),
        FromInt(p.estimated_impact))

legacy_vote_entry(p, metrics) ==
    [agent |-> p.agent_name,
     score |-> legacy_score(p, metrics),
     confidence |-> p.confidence,
     proposal |-> p.proposal_text]

\* the value the legacy calculate_weighted_votes returns, or the exception
\* its last division raises
legacy_calculate_weighted_votes(props, metrics) ==
    IF props = <<>>
    THEN [error |-> "No proposals to vote on"]
    ELSE LET scores == List([i \in 1..Len(props) |-> legacy_score(props[i], metrics)])
             order == SortDesc(scores)
             total == SumRat(scores)
         IN  IF total = Zero
             THEN [raised |-> "ZeroDivisionError"]
             ELSE [winner |-> props[order[1]],
                   all_votes |->
                       List([k \in 1..Len(props) |->
                                legacy_vote_entry(props[order[k]], metrics)]),
                   consensus_strength |-> Div(scores[order[1]], total)]

\* the legacy update_agent_metrics, as a function of the agent_metrics dict
update_agent_metrics(metrics, agent_id, success, response_time) ==
    LET known == IF agent_id \in DOMAIN metrics THEN metrics
                 ELSE DictSet(metrics, agent_id, LegacyAgentMetrics(agent_id))
        n == known[agent_id].total_missions + 1
    IN  [known EXCEPT
            ![agent_id].total_missions = n,
            ![agent_id].success_rate =
                Div(Add(Mul(FromInt(n - 1), @), IF success THEN One ELSE Zero),
                    FromInt(n)),
            ![agent_id].avg_response_time =
                Div(Add(Mul(FromInt(n - 1), @), FromInt(response_time)),
                    FromInt(n))]

LegacyCalculateWeightedVotes ==
    /\ call' = Call("calculate_weighted_votes", <<>>)
    /\ ret' = legacy_calculate_weighted_votes(proposals, agent_metrics)
    /\ UNCHANGED <<proposals, agent_metrics, memory, voting_history,
                   debate_history, clock, tally, replicas, serverVars>>

LegacyUpdateAgentMetrics(agent_id, success, response_time) ==
    /\ agent_metrics' = update_agent_metrics(agent_metrics, agent_id, success, response_time)
    /\ call' = Call("update_agent_metrics", <<agent_id, success, response_time>>)
    /\ ret' = None
    /\ UNCHANGED <<proposals, memory, voting_history, debate_history, clock,
                   tally, replicas, serverVars>>

MaxLegacyProposals == 2

MaxLegacyMissions == 2

LegacyProposal(agent_id, proposal_text, confidence, estimated_impact) ==
    [agent_id |-> agent_id, agent_name |-> "Scanner",
     proposal_text |-> proposal_text, confidence |-> confidence,
     reasoning |-> "", estimated_impact |-> estimated_impact,
     vote_weight |-> One, personality |-> "analytical"]

LegacyProposals ==
    {LegacyProposal("RED_SCANNER", "wait", Rat(1, 2), 0),
     LegacyProposal("RED_SCANNER", "probe", Zero, 80),
     LegacyProposal("BLUE_SCANNER", "patch", Rat(4, 10), 90)}

LegacyPropose ==
    \E p \in LegacyProposals :
        /\ Len(proposals) < MaxLegacyProposals
        /\ AddProposal(p)

LegacyReport ==
    \E success \in BOOLEAN :
        /\ DictGet(agent_metrics, "RED_SCANNER",
                   LegacyAgentMetrics("RED_SCANNER")).total_missions < MaxLegacyMissions
        /\ LegacyUpdateAgentMetrics("RED_SCANNER", success, 100)

NextLegacy ==
    \/ LegacyPropose
    \/ LegacyReport
    \/ LegacyCalculateWeightedVotes
    \/ ClearProposals

SpecLegacy == Init /\ [][NextLegacy]_vars

\* C17: in the legacy orchestrator a vote on a non-empty proposal list always
\* returns a result with a consensus_strength, also when every score is 0;
\* it never fails with a division error.
C17_LegacyVoteAlwaysReturns ==
    call.op = "calculate_weighted_votes" /\ proposals # <<>> =>
        /\ "raised" \notin DOMAIN ret
        /\ "consensus_strength" \in DOMAIN ret

\* ---------------------------------------------------------------------------
\* Debates among four agents with different names, equally confident in
\* pairs; the round is assembled before it is debated.

Debaters ==
    {[agent_id |-> "RED_SCANNER", agent_name |-> "Scanner", team |-> "RED",
      proposal_text |-> "exploit", confidence |-> Rat(9, 10),
      estimated_impact |-> 80, personality |-> "analytical",
      specialization_bonus |-> Zero],
     [agent_id |-> "BLUE_ANALYST", agent_name |-> "Analyst", team |-> "BLUE",
      proposal_text |-> "patch", confidence |-> Rat(9, 10),
      estimated_impact |-> 90, personality |-> "analytical",
      specialization_bonus |-> Zero],
     [agent_id |-> "RED_COMMANDER", agent_name |-> "Commander", team |-> "RED",
      proposal_text |-> "pivot", confidence |-> Rat(4, 10),
      estimated_impact |-> 80, personality |-> "strategic",
      specialization_bonus |-> Zero],
     [agent_id |-> "BLUE_RESPONDER", agent_name |-> "Responder", team |-> "BLUE",
      proposal_text |-> "isolate", confidence |-> Rat(4, 10),
      estimated_impact |-> 60, personality |-> "aggressive",
      specialization_bonus |-> Zero]}

EnterDebate ==
    \E p \in Debaters :
        /\ debate_history = <<>>
        /\ Len(proposals) < MaxDebaters
        /\ AddProposal(p)

NextTranscript == EnterDebate \/ Debate

SpecTranscript == Init /\ [][NextTranscript]_vars

\* the position of the most confident proposal outside skip, the earliest
\* of them when several are equally confident
MostConfident(props, skip) ==
    CHOOSE i \in (1..Len(props)) \ skip :
        \A j \in (1..Len(props)) \ skip :
            \/ Lt(props[j].confidence, props[i].confidence)
            \/ props[j].confidence = props[i].confidence /\ i <= j

\* round r of the transcript is of round_type and spoken by proposal p
SpokenBy(r, round_type, p) ==
    /\ r.round_type = round_type
    /\ r.agent_id = p.agent_id
    /\ r.agent_name = p.agent_name

\* C18: for n >= 2 proposals the transcript is the n openings in proposal
\* order, then the n challenges in proposal order, the challenge of proposal
\* i aimed at the agent of proposal (i+1) mod n, then the n rebuttals in
\* proposal order, then the closings of the two most confident proposals,
\* the more confident first and equally confident ones in list order.
C18_TranscriptOrder ==
    call.op = "generate_debate" /\ Len(proposals) >= 2 =>
        LET n == Len(proposals)
            first == MostConfident(proposals, {})
            second == MostConfident(proposals, {first})
        IN  /\ Len(ret) = 3 * n + 2
            /\ \A i \in 1..n :
                  /\ SpokenBy(ret[i], "opening", proposals[i])
                  /\ SpokenBy(ret[n + i], "challenge", proposals[i])
                  /\ ret[n + i].target_agent = proposals[(i % n) + 1].agent_name
                  /\ SpokenBy(ret[2 * n + i], "rebuttal", proposals[i])
            /\ SpokenBy(ret[3 * n + 1], "closing", proposals[first])
            /\ SpokenBy(ret[3 * n + 2], "closing", proposals[second])

\* three agents, the two equally confident ones added last: the Analyst,
\* added before the Scanner, closes first, and the last challenge is aimed
\* at the first proposal
C18_Witness ==
    /\ call.op = "generate_debate"
    /\ Len(proposals) = 3
    /\ proposals[1].agent_name = "Commander"
    /\ proposals[2].agent_name = "Analyst"
    /\ proposals[3].agent_name = "Scanner"
    /\ ret[6].target_agent = "Commander"
    /\ ret[10].agent_name = "Analyst"
    /\ ret[11].agent_name = "Scanner"

\* the positions of the proposals equal to p
CopiesOf(props, p) == {j \in 1..Len(props) : props[j] = p}

\* C19: add_proposal appends, whatever the list already holds (also a
\* proposal of the same agent); only clear_proposals shortens the list; a
\* vote on k proposals reports total_proposals = k and has k entries in
\* all_votes, one for each copy of each proposal, each with its own score.
C19_NoDeduplication ==
    [][/\ call'.op = "add_proposal" => proposals' = Append(proposals, call'.args[1])
       /\ call'.op \notin {"add_proposal", "clear_proposals"} => proposals' = proposals
       /\ call'.op = "calculate_weighted_votes" /\ proposals # <<>> =>
            /\ ret'.total_proposals = Len(proposals)
            /\ Len(ret'.all_votes) = Len(proposals)
            /\ \A i \in 1..Len(proposals) :
                  /\ Cardinality(VotesFor(ret'.all_votes, proposals[i]))
                       = Cardinality(CopiesOf(proposals, proposals[i]))
                  /\ \A j \in VotesFor(ret'.all_votes, proposals[i]) :
                        ret'.all_votes[j].score
                          = Round(FormulaScore(proposals[i], agent_metrics), 2)
      ]_vars

\* the same proposal added twice and voted on: two entries
C19_Witness ==
    /\ call.op = "calculate_weighted_votes"
    /\ proposals = <<ExampleA, ExampleA>>
    /\ ret.total_proposals = 2
    /\ Len(ret.all_votes) = 2
    /\ ret.all_votes[1] = ret.all_votes[2]
    /\ ret.consensus_strength = Rat(1, 2)

\* ---------------------------------------------------------------------------
\* One agent reporting more than 50 missions: a run of perfectly calibrated
\* pairs (confidence 1, success) and a run of the worst calibrated ones
\* (confidence 1, failure), with a bounded number of changes between them.

MaxCalibrations == 52

MaxSwitches == 1

CalibrationPairs == {<<One, TRUE>>, <<One, FALSE>>}

\* the number of places where the history changes from one pair to another
Switches(history) ==
    Cardinality({i \in 1..(Len(history) - 1) : history[i] # history[i + 1]})

Calibrate ==
    \E pair \in CalibrationPairs :
        /\ DeepAgent \in DOMAIN agent_metrics
        /\ agent_metrics[DeepAgent].total_missions < MaxCalibrations
        /\ LET history == agent_metrics[DeepAgent].confidence_history
           IN  \/ history = <<>>
               \/ history # <<>> /\ history[Len(history)] = pair
               \/ history # <<>> /\ Switches(history) < MaxSwitches
        /\ UpdateMetricsAfterMission(DeepAgent, pair[2], 100, "recon", pair[1], 0, <<>>)

\* the registration loop at start-up: each default agent once
RegisterDefaults ==
    \E row \in DefaultAgents :
        /\ row[1] \notin DOMAIN agent_metrics
        /\ RegisterAgent(row[1], row[2], row[3], row[4])

NextCalibration == RegisterDefaults \/ Calibrate

SpecCalibration == Init /\ [][NextCalibration]_vars

\* |confidence - actual| of pair i of history, actual 1 for a success
MissBy(history, i) ==
    LET actual == IF history[i][2] THEN One ELSE Zero
        miss == Sub(history[i][1], actual)
    IN  IF Lt(miss, Zero) THEN Sub(Zero, miss) ELSE miss

\* the sum of the misses of the last window pairs of history
RECURSIVE MissesOfLast(_, _)
MissesOfLast(history, window) ==
    IF window = 0 THEN Zero
    ELSE Add(MissBy(history, Len(history) - window + 1),
             MissesOfLast(history, window - 1))

\* C20: confidence_history holds at most 50 pairs, the most recent ones in
\* order (a report appends its pair and, beyond 50, drops the oldest); when
\* the score is recomputed (5 pairs or more) calibration_score = 1 - the
\* mean of |confidence - actual| over the last min(10, length) pairs, and
\* it lies in [0, 1].
C20_CalibrationWindow ==
    [][IsMissionReport /\ call'.args[1] \in DOMAIN agent_metrics =>
        LET before == agent_metrics[call'.args[1]].confidence_history
            after == agent_metrics'[call'.args[1]].confidence_history
            score == agent_metrics'[call'.args[1]].calibration_score
            dropped == Len(before) + 1 - Len(after)
            window == IF Len(after) < 10 THEN Len(after) ELSE 10
        IN  /\ Len(after) = (IF Len(before) < 50 THEN Len(before) + 1 ELSE 50)
            /\ after[Len(after)] = <<call'.args[5], call'.args[2]>>
            /\ \A i \in 1..(Len(after) - 1) : after[i] = before[i + dropped]
            /\ Len(after) >= 5 =>
                  score = Sub(One, Div(MissesOfLast(after, window), FromInt(window)))
            /\ Le(Zero, score) /\ Le(score, One)
      ]_vars

\* 52 reports: the history is full, its oldest pairs are gone, and three of
\* the last ten pairs missed
C20_Witness ==
    /\ DeepAgent \in DOMAIN agent_metrics
    /\ agent_metrics[DeepAgent].total_missions = 52
    /\ Len(agent_metrics[DeepAgent].confidence_history) = 50
    /\ agent_metrics[DeepAgent].confidence_history[1] = <<One, TRUE>>
    /\ agent_metrics[DeepAgent].confidence_history[50] = <<One, FALSE>>
    /\ agent_metrics[DeepAgent].calibration_score = Rat(7, 10)

\* ---------------------------------------------------------------------------
\* One scanner reporting a long series of missions with the other scanner and
\* with an agent that was never registered; the other scanner reports a few
\* missions of its own.

MaxCollabMissions == 17

MaxPartnerMissions == 1

Partner == OtherAgent(DeepAgent)

Outsider == "MERCENARY"

ReportWithCollaborators ==
    \E success \in BOOLEAN :
        /\ DeepAgent \in DOMAIN agent_metrics
        /\ agent_metrics[DeepAgent].total_missions < MaxCollabMissions
        /\ LET history == agent_metrics[DeepAgent].confidence_history
           IN  \/ history = <<>>
               \/ history # <<>> /\ history[Len(history)][2] = success
               \/ history # <<>> /\ Switches(history) < MaxSwitches
        /\ UpdateMetricsAfterMission(DeepAgent, success, 100, "recon", Rat(9, 10), 0, <<Partner, Outsider>>)

PartnerReports ==
    \E success \in BOOLEAN :
        /\ Partner \in DOMAIN agent_metrics
        /\ agent_metrics[Partner].total_missions < MaxPartnerMissions
        /\ UpdateMetricsAfterMission(Partner, success, 100, "recon", Rat(9, 10), 0, <<DeepAgent>>)

NextCollaboration == RegisterDefaults \/ ReportWithCollaborators \/ PartnerReports

SpecCollaboration == Init /\ [][NextCollaboration]_vars

\* the collaboration score after one more mission with that collaborator
CollaborationAfter(scores, other_id, success) ==
    LET current == IF other_id \in DOMAIN scores THEN scores[other_id] ELSE Rat(1, 2)
        moved == IF success THEN Add(current, Rat(1, 20)) ELSE Sub(current, Rat(3, 100))
    IN  IF Lt(One, moved) THEN One ELSE IF Lt(moved, Zero) THEN Zero ELSE moved

\* C21: a mission report of agent A with collaborators changes A's
\* collaboration_scores for the named collaborators only (from 0.5, +0.05
\* on success, -0.03 on failure, within [0, 1]); the record of a
\* collaborator, its own score towards A included, does not change, and no
\* record is created for a collaborator that is not registered.
C21_CollaborationDirected ==
    [][IsMissionReport /\ call'.args[1] \in DOMAIN agent_metrics =>
        LET agent_id == call'.args[1]
            named == {call'.args[7][i] : i \in 1..Len(call'.args[7])}
            before == agent_metrics[agent_id].collaboration_scores
            after == agent_metrics'[agent_id].collaboration_scores
        IN  /\ DOMAIN agent_metrics' = DOMAIN agent_metrics
            /\ \A other \in DOMAIN agent_metrics \ {agent_id} :
                  agent_metrics'[other] = agent_metrics[other]
            /\ DOMAIN after = DOMAIN before \cup named
            /\ \A other_id \in DOMAIN after :
                  /\ other_id \in named =>
                        after[other_id] = CollaborationAfter(before, other_id, call'.args[2])
                  /\ other_id \notin named => after[other_id] = before[other_id]
                  /\ Le(Zero, after[other_id]) /\ Le(after[other_id], One)
      ]_vars

\* seventeen failed missions took the scanner's scores down to 0 for both
\* collaborators, while the other scanner, registered, still holds the 0.55
\* of its own one success with the scanner, and the outsider has no record
C21_Witness ==
    /\ call.op = "update_metrics_after_mission"
    /\ call.args[1] = DeepAgent
    /\ DeepAgent \in DOMAIN agent_metrics
    /\ Partner \in DOMAIN agent_metrics
    /\ Outsider \notin DOMAIN agent_metrics
    /\ agent_metrics[DeepAgent].total_missions = 17
    /\ agent_metrics[DeepAgent].collaboration_scores = (Partner :> Zero) @@ (Outsider :> Zero)
    /\ agent_metrics[Partner].collaboration_scores = (DeepAgent :> Rat(11, 20))

\* ---------------------------------------------------------------------------
\* The small memory again, now also asked for its context.

Recall == \E mission_type \in MissionTypes : GetRelevantContext(mission_type)

NextEvict == NextTrim \/ Recall

SpecEvict == InitTrim /\ [][NextEvict]_vars

\* the entries of a list that mission_history still holds
StillInHistory(entries) ==
    SelectSeq(entries, LAMBDA e : \E i \in 1..Len(memory.mission_history) : memory.mission_history[i] = e)

\* C22: an evicted entry is held nowhere in the memory: every entry of
\* successful_strategies and failed_strategies is also in mission_history,
\* the memory holds at most max_history entries in all, and
\* get_relevant_context answers from the entries still in mission_history.
C22_EvictedEntriesForgotten ==
    /\ StillInHistory(memory.successful_strategies) = memory.successful_strategies
    /\ StillInHistory(memory.failed_strategies) = memory.failed_strategies
    /\ Cardinality(EntriesAdded) <= memory.max_history
    /\ call.op = "get_relevant_context" =>
          ret = get_relevant_context(
                    [memory EXCEPT
                        !.successful_strategies = StillInHistory(@),
                        !.failed_strategies = StillInHistory(@)],
                    call.args[1])

(***************************************************************************)
(* ChiefStrategist.  A text (the output of a sub-agent) is modelled by     *)
(* what the code looks at: its length and the set of lower-cased terms     *)
(* that occur in its lower-cased form.  sub_agent_results, a dict in       *)
(* insertion order, is a sequence of <<agent_id, text>> pairs.  Timestamps *)
(* are left out, and of the summary (the first 150 characters) only the    *)
(* length is kept.                                                         *)
(***************************************************************************)
Text(length, mentions) == [length |-> length, mentions |-> mentions]

\* sum(1 for t in terms if t.lower() in text.lower())
TermsFound(terms, text) ==
    Cardinality({i \in 1..Len(terms) : terms[i] \in text.mentions})

StrategistTechnicalTerms ==
    <<"cve", "vulnerability", "exploit", "firewall", "injection", "overflow", "bypass", "authentication">>

chief_assess_quality(result) ==
    LET length_bonus == IF 50 < result.length /\ result.length < 500
                        THEN Rat(15, 100) ELSE Zero
        found == TermsFound(StrategistTechnicalTerms, result)
        score == Add(Add(Rat(1, 2), length_bonus), Min(Rat(1, 5), Rat(5 * found, 100)))
    IN  Min(One, score)

FindingIndicators ==
    <<"cve-", "sql injection", "buffer overflow", "xss", "rce", "authentication bypass", "privilege escalation">>

extract_findings(result) ==
    FirstN(SelectSeq(FindingIndicators, LAMBDA ind : ind \in result.mentions), 5)

generate_recommendation(insights) ==
    LET high_quality == SelectSeq(insights, LAMBDA i : Gt(i.quality_score, Rat(7, 10)))
    IN  IF Len(high_quality) >= 3
        THEN "Strong intelligence from multiple sources. Recommend coordinated multi-vector approach."
        ELSE IF Len(high_quality) >= 2
        THEN "Good coverage. Proceed with primary attack, secondary on standby."
        ELSE "Limited intelligence. Recommend additional reconnaissance."

insight_of(agent_id, result) ==
    [agent_id |-> agent_id,
     summary_length |-> IF result.length > 150 THEN 153 ELSE result.length,
     quality_score |-> chief_assess_quality(result),
     key_findings |-> extract_findings(result)]

\* coordinate with a memory of the strategist's own, which nothing writes
coordinate_private_memory(team, mem, sub_agent_results, mission_type) ==
    LET insights == List([i \in 1..Len(sub_agent_results) |->
                            insight_of(sub_agent_results[i][1], sub_agent_results[i][2])])
        qualities == [i \in 1..Len(insights) |-> insights[i].quality_score]
        avg_quality == IF insights # <<>>
                       THEN Div(SumRat(qualities), FromInt(Len(insights))) ELSE Zero
    IN  [team |-> team,
         sub_agents_count |-> Len(insights),
         insights |-> insights,
         average_quality |-> Round(avg_quality, 3),
         historical_context |-> get_relevant_context(AgentMemory(DefaultMaxHistory), mission_type),
         recommendation |-> generate_recommendation(insights),
         confidence |-> Min(Rat(95, 100), Add(avg_quality, Rat(1, 10)))]

\* the coordination record; mem is self.orchestrator.memory
coordinate(team, mem, sub_agent_results, mission_type) ==
    LET insights == List([i \in 1..Len(sub_agent_results) |->
                            insight_of(sub_agent_results[i][1], sub_agent_results[i][2])])
        qualities == [i \in 1..Len(insights) |-> insights[i].quality_score]
        avg_quality == IF insights # <<>>
                       THEN Div(SumRat(qualities), FromInt(Len(insights))) ELSE Zero
    IN  [team |-> team,
         sub_agents_count |-> Len(insights),
         insights |-> insights,
         average_quality |-> Round(avg_quality, 3),
         historical_context |-> get_relevant_context(mem, mission_type),
         recommendation |-> generate_recommendation(insights),
         confidence |-> Min(Rat(95, 100), Add(avg_quality, Rat(1, 10)))]

\* red_strategist.coordinate(...) or blue_strategist.coordinate(...)
Coordinate(team, sub_agent_results, mission_type) ==
    /\ call' = Call("coordinate", <<team, sub_agent_results, mission_type>>)
    /\ ret' = coordinate(team, memory, sub_agent_results, mission_type)
    /\ strategists' = [strategists EXCEPT ![team].coordination_history = Append(@, ret')]
    /\ UNCHANGED <<orchestratorVars, reflection_history, gameVars>>

\* ---------------------------------------------------------------------------
\* Missions recorded in the orchestrator's memory, each under a strategy
\* named after its number, and the two strategists coordinating.

MaxCoordAdds == 4

MaxCoordinations == 2

Teams == {"RED", "BLUE"}

\* what the sub-agents of a team handed in
SubAgentResults(team) ==
    IF team = "RED"
    THEN <<<<"RED_SCANNER", Text(120, {"cve", "cve-", "exploit", "vulnerability", "bypass"})>>,
           <<"RED_COMMANDER", Text(30, {})>>>>
    ELSE <<>>

Coordinations ==
    Len(strategists["RED"].coordination_history) + Len(strategists["BLUE"].coordination_history)

\* the missions recorded: reconnaissance that worked or failed, and
\* exfiltration that worked
PlanOutcomes == {<<"recon", TRUE>>, <<"recon", FALSE>>, <<"exfil", TRUE>>}

RecordPlan ==
    \E plan \in PlanOutcomes :
        /\ clock < MaxCoordAdds
        /\ AddMission(plan[1], "plan-" \o ToString(clock + 1), "done", plan[2])

Coordinating ==
    \E team \in Teams, mission_type \in MissionTypes :
        /\ Coordinations < MaxCoordinations
        /\ Coordinate(team, SubAgentResults(team), mission_type)

NextCoordinate == RecordPlan \/ Coordinating

SpecCoordinate == Init /\ [][NextCoordinate]_vars

\* the strategies of the (at most) newest recorded missions of that type
\* and outcome, oldest first; missions are numbered in the order recorded
RECURSIVE NewestPlans(_, _, _, _)
NewestPlans(mission_type, success, upto, newest) ==
    IF upto = 0 \/ newest = 0 THEN <<>>
    ELSE LET here == {e \in EntriesAdded : e.id = upto /\ e.mission_type = mission_type /\ e.success = success}
         IN  IF here = {}
             THEN NewestPlans(mission_type, success, upto - 1, newest)
             ELSE Append(NewestPlans(mission_type, success, upto - 1, newest - 1),
                         (CHOOSE e \in here : TRUE).strategy)

\* the sentence get_relevant_context makes of those strategies
ContextNaming(successful, failed) ==
    IF successful = <<>> /\ failed = <<>> THEN "No prior experience."
    ELSE IF failed = <<>> THEN "Previously successful: " \o Join(", ", successful)
    ELSE IF successful = <<>> THEN "Avoid (failed before): " \o Join(", ", failed)
    ELSE "Previously successful: " \o Join(", ", successful)
             \o " | " \o "Avoid (failed before): " \o Join(", ", failed)

\* C23: coordinate of either strategist reports as historical_context the
\* context of the shared orchestrator memory for the mission type: it names
\* the 3 most recent successful and 2 most recent failed strategies of that
\* type, so a mission of that type recorded just before is named; it
\* changes nothing of the orchestrator, its memory included, and appends
\* to the coordination history of its own strategist only.
C23_SharedMemoryContext ==
    [][call'.op = "coordinate" =>
        LET team == call'.args[1]
            mission_type == call'.args[3]
            successful == NewestPlans(mission_type, TRUE, clock, 3)
            failed == NewestPlans(mission_type, FALSE, clock, 2)
        IN  /\ ret'.historical_context = ContextNaming(successful, failed)
            /\ (call.op = "add_mission" /\ call.args[1] = mission_type) =>
                  \/ call.args[4] /\ successful[Len(successful)] = call.args[2]
                  \/ ~call.args[4] /\ failed[Len(failed)] = call.args[2]
            /\ ret'.team = team
            /\ UNCHANGED orchestratorVars
            /\ strategists'[team].coordination_history
                 = Append(strategists[team].coordination_history, ret')
            /\ \A other \in Teams \ {team} : strategists'[other] = strategists[other]
      ]_vars

\* four successful recon missions recorded, then both strategists
\* coordinate a recon mission and are told of the same three newest plans
C23_Witness ==
    /\ call.op = "coordinate"
    /\ call.args[1] = "BLUE"
    /\ clock = 4
    /\ Len(memory.successful_strategies) = 4
    /\ Len(strategists["RED"].coordination_history) = 1
    /\ Len(strategists["BLUE"].coordination_history) = 1
    /\ strategists["RED"].coordination_history[1].historical_context
         = "Previously successful: plan-2, plan-3, plan-4"
    /\ ret.historical_context = "Previously successful: plan-2, plan-3, plan-4"
    /\ strategists["RED"].coordination_history[1].sub_agents_count = 2

(***************************************************************************)
(* AgentReflection.  Outputs are texts as above; timestamps are left out.  *)
(***************************************************************************)
ReflectionTechnicalTerms == <<"vulnerability", "exploit", "cve", "firewall", "injection">>

ReflectionActionTerms == <<"recommend", "deploy", "execute", "implement">>

SpecificityTerms == <<"cve", "port", "vulnerability", "exploit">>

reflection_assess_quality(output) ==
    LET length_bonus == IF 100 <= output.length /\ output.length <= 400
                        THEN Rat(1, 5) ELSE Zero
        technical == Min(Rat(1, 5), Rat(5 * TermsFound(ReflectionTechnicalTerms, output), 100))
        actions == Min(Rat(1, 10), Rat(3 * TermsFound(ReflectionActionTerms, output), 100))
        score == Add(Add(Add(Rat(1, 2), length_bonus), technical), actions)
    IN  Min(One, Max(Rat(1, 10), score))

Improvement(type, issue, suggestion) ==
    [type |-> type, issue |-> issue, suggestion |-> suggestion]

\* reflect calling an output of exactly 50 or 500 characters brief or verbose
reflect_inclusive(agent_id, output, context) ==
    LET quality == reflection_assess_quality(output)
        improvements ==
            (IF output.length <= 50
             THEN <<Improvement("brevity", "Output too brief", "Add specific technical details")>>
             ELSE <<>>)
            \o (IF output.length >= 500
                THEN <<Improvement("verbosity", "Output too verbose", "Condense to key insights")>>
                ELSE <<>>)
            \o (IF TermsFound(SpecificityTerms, output) < 2
                THEN <<Improvement("specificity", "Lacks technical detail", "Include CVEs, ports, or specific vulnerabilities")>>
                ELSE <<>>)
        self_critique ==
            IF Lt(quality, Rat(1, 2)) THEN "Analysis insufficient - needs more detail."
            ELSE IF Lt(quality, Rat(3, 4)) THEN "Analysis adequate but could improve."
            ELSE "Analysis thorough and actionable."
    IN  [agent_id |-> agent_id,
         quality_score |-> Round(quality, 3),
         improvements |-> improvements,
         self_critique |-> self_critique,
         confidence_adjustment |-> Rat(-Len(improvements), 10)]

reflect(agent_id, output, context) ==
    LET quality == reflection_assess_quality(output)
        improvements ==
            (IF output.length < 50
             THEN <<Improvement("brevity", "Output too brief", "Add specific technical details")>>
             ELSE <<>>)
            \o (IF output.length > 500
                THEN <<Improvement("verbosity", "Output too verbose", "Condense to key insights")>>
                ELSE <<>>)
            \o (IF TermsFound(SpecificityTerms, output) < 2
                THEN <<Improvement("specificity", "Lacks technical detail", "Include CVEs, ports, or specific vulnerabilities")>>
                ELSE <<>>)
        self_critique ==
            IF Lt(quality, Rat(1, 2)) THEN "Analysis insufficient - needs more detail."
            ELSE IF Lt(quality, Rat(3, 4)) THEN "Analysis adequate but could improve."
            ELSE "Analysis thorough and actionable."
    IN  [agent_id |-> agent_id,
         quality_score |-> Round(quality, 3),
         improvements |-> improvements,
         self_critique |-> self_critique,
         confidence_adjustment |-> Rat(-Len(improvements), 10)]

\* reflection_engine.reflect(agent_id, output, context)
Reflect(agent_id, output, context) ==
    /\ call' = Call("reflect", <<agent_id, output, context>>)
    /\ ret' = reflect(agent_id, output, context)
    /\ reflection_history' = Append(reflection_history, ret')
    /\ UNCHANGED <<orchestratorVars, strategists, gameVars>>

\* ---------------------------------------------------------------------------
\* Reflections on outputs of the lengths around the two thresholds, with
\* every choice of the four terms that count for specificity.

MaxReflections == 1

OutputLengths == {49, 50, 100, 500, 501}

ReflectOutputs ==
    {Text(n, found) : n \in OutputLengths, found \in SUBSET {"cve", "port", "vulnerability", "exploit"}}

Reflecting ==
    \E agent_id \in AgentIds, output \in ReflectOutputs :
        /\ Len(reflection_history) < MaxReflections
        /\ Reflect(agent_id, output, "")

NextReflect == Reflecting

SpecReflect == Init /\ [][NextReflect]_vars

\* the reflection flags an improvement of that type
Flags(reflection, type) ==
    \E i \in 1..Len(reflection.improvements) : reflection.improvements[i].type = type

\* C24: reflect flags brevity exactly when the output is shorter than 50
\* characters, verbosity exactly when it is longer than 500, specificity
\* exactly when fewer than 2 of the technical terms (CVE, port,
\* vulnerability, exploit) are found; it flags no type twice, so at most
\* three improvements, and confidence_adjustment is -0.1 times their number.
C24_ReflectionFlags ==
    call.op = "reflect" =>
        LET output == call.args[2]
            found == output.mentions \cap {"cve", "port", "vulnerability", "exploit"}
            flagged == {type \in {"brevity", "verbosity", "specificity"} : Flags(ret, type)}
        IN  /\ Flags(ret, "brevity") <=> output.length < 50
            /\ Flags(ret, "verbosity") <=> output.length > 500
            /\ Flags(ret, "specificity") <=> Cardinality(found) < 2
            /\ Len(ret.improvements) = Cardinality(flagged)
            /\ Len(ret.improvements) <= 3
            /\ ret.confidence_adjustment[1] * 10 = -1 * Len(ret.improvements) * ret.confidence_adjustment[2]
            /\ reflection_history[Len(reflection_history)] = ret

\* an output of 501 characters that names one technical term only: two
\* improvements, and an adjustment of -0.2
C24_Witness ==
    /\ call.op = "reflect"
    /\ call.args[2] = Text(501, {"port"})
    /\ Flags(ret, "verbosity") /\ Flags(ret, "specificity") /\ ~Flags(ret, "brevity")
    /\ ret.confidence_adjustment = Rat(-1, 5)

\* ---------------------------------------------------------------------------
\* The first missions of a freshly registered agent, with confident and
\* unsure, right and wrong reports.

MaxWarmup == 5

WarmupPairs == ConfidencePairs \cup {<<Zero, FALSE>>}

Warmup ==
    \E pair \in WarmupPairs :
        /\ DeepAgent \in DOMAIN agent_metrics
        /\ agent_metrics[DeepAgent].total_missions < MaxWarmup
        /\ UpdateMetricsAfterMission(DeepAgent, pair[2], 100, "recon", pair[1], 0, <<>>)

NextWarmup == RegisterDefaults \/ Warmup

SpecWarmup == Init /\ [][NextWarmup]_vars

\* C25: calibration_score is the initial 0.5 as long as the agent has fewer
\* than 5 recorded (confidence, success) pairs: each of the first four
\* reports appends its pair to confidence_history and leaves the score.
C25_CalibrationWarmup ==
    [][IsMissionReport /\ call'.args[1] \in DOMAIN agent_metrics =>
        LET before == agent_metrics[call'.args[1]]
            after == agent_metrics'[call'.args[1]]
        IN  Len(before.confidence_history) < 4 =>
               /\ before.calibration_score = Rat(1, 2)
               /\ after.calibration_score = Rat(1, 2)
               /\ after.confidence_history
                    = Append(before.confidence_history, <<call'.args[5], call'.args[2]>>)
      ]_vars

\* four reports that were all sure and all wrong, and the score still 0.5
C25_Witness ==
    /\ call.op = "update_metrics_after_mission"
    /\ DeepAgent \in DOMAIN agent_metrics
    /\ agent_metrics[DeepAgent].confidence_history
         = <<<<Rat(9, 10), FALSE>>, <<Rat(9, 10), FALSE>>, <<Rat(9, 10), FALSE>>, <<Rat(9, 10), FALSE>>>>
    /\ agent_metrics[DeepAgent].success_rate = Zero
    /\ agent_metrics[DeepAgent].calibration_score = Rat(1, 2)

\* ---------------------------------------------------------------------------
\* make_final_decision once more (SpecDecision), on results that carry no
\* consensus.

\* C26: make_final_decision on a vote result with neither consensus_strength
\* nor winner, such as the marker the legacy calculate_weighted_votes
\* returns for an empty round, takes the consensus to be 0.5: approved is
\* true, override is false and selected_strategy is "Default strategy".
C26_DecisionOnErrorMarker ==
    /\ legacy_calculate_weighted_votes(<<>>, EmptyDict) \in VoteResultInputs
    /\ (/\ call.op = "make_final_decision"
        /\ "consensus_strength" \notin DOMAIN call.args[1]
        /\ "winner" \notin DOMAIN call.args[1]) =>
            /\ ret.approved = TRUE
            /\ ret.override = FALSE
            /\ ret.selected_strategy = "Default strategy"
            /\ ret.reasoning = "Consensus strength: 50%. Moderate agreement, proceeding with caution."

\* the decision on the marker of the empty round
C26_Witness ==
    /\ call.op = "make_final_decision"
    /\ call.args[1] = legacy_calculate_weighted_votes(<<>>, EmptyDict)
    /\ ret.approved
    /\ ~ret.override
    /\ ret.selected_strategy = "Default strategy"

\* ---------------------------------------------------------------------------
\* Rounds of the two scanners, which share their display name, and a
\* commander.

MaxNamed == 3

MaxPolls == 1

NamedCommander ==
    [agent_id |-> "RED_COMMANDER", agent_name |-> "Commander", team |-> "RED",
     proposal_text |-> "pivot", confidence |-> Rat(7, 10),
     estimated_impact |-> 60, personality |-> "strategic",
     specialization_bonus |-> Zero]

NamedProposals == {ExampleA, ExampleB, NamedCommander}

ProposeNamed ==
    \E p \in NamedProposals :
        /\ Len(proposals) < MaxNamed
        /\ AddProposal(p)

Poll ==
    /\ Len(voting_history) < MaxPolls
    /\ CalculateWeightedVotes

NextNamed == ProposeNamed \/ Poll

SpecNamed == Init /\ [][NextNamed]_vars

\* the sum of the scores of the round
RoundTotal ==
    SumRat([i \in 1..Len(proposals) |-> FormulaScore(proposals[i], agent_metrics)])

\* the position in the ranking of the lowest-ranked proposal under that name
LowestRanked(votes, agent_name) ==
    CHOOSE j \in 1..Len(votes) :
        /\ votes[j].agent_name = agent_name
        /\ \A k \in (j + 1)..Len(votes) : votes[k].agent_name # agent_name

\* the proposal ranked at position j
ProposalRanked(votes, j) ==
    CHOOSE p \in {proposals[i] : i \in 1..Len(proposals)} : j \in VotesFor(votes, p)

\* C27: vote_distribution has one entry per distinct agent_name of the
\* round; the entry of a name is the percentage (to one decimal) of the
\* lowest-ranked proposal under that name, whatever other proposals share
\* the name (0 when the scores sum to 0).
C27_DistributionByName ==
    call.op = "calculate_weighted_votes" /\ proposals # <<>> =>
        LET votes == ret.all_votes
            names == {proposals[i].agent_name : i \in 1..Len(proposals)}
        IN  /\ DOMAIN ret.vote_distribution = names
            /\ \A agent_name \in names :
                  LET p == ProposalRanked(votes, LowestRanked(votes, agent_name))
                  IN  ret.vote_distribution[agent_name] =
                         IF Gt(RoundTotal, Zero)
                         THEN Round(Div(Mul(FormulaScore(p, agent_metrics), FromInt(100)), RoundTotal), 1)
                         ELSE Zero

\* both scanners and the commander proposed: two entries for three
\* proposals, and the percentages sum to less than 99
C27_Witness ==
    /\ call.op = "calculate_weighted_votes"
    /\ Len(proposals) = 3
    /\ {proposals[i] : i \in 1..3} = NamedProposals
    /\ DOMAIN ret.vote_distribution = {"Scanner", "Commander"}
    /\ Gt(RoundTotal, Zero)
    /\ Lt(Add(ret.vote_distribution["Scanner"], ret.vote_distribution["Commander"]), FromInt(99))

\* ---------------------------------------------------------------------------
\* Rounds that are voted on and debated more than once, and cleared.

MaxHistoryRounds == 2

VoteAgain ==
    /\ proposals = <<>> \/ Len(voting_history) < MaxHistoryRounds
    /\ CalculateWeightedVotes

DebateAgain ==
    /\ Len(proposals) < 2 \/ Len(debate_history) < MaxHistoryRounds
    /\ GenerateDebate

NextHistory == ProposeInTurn \/ VoteAgain \/ DebateAgain \/ ClearProposals

SpecHistory == Init /\ [][NextHistory]_vars

\* history grew by exactly the records in added, at its end
GrewBy(before, after, added) ==
    /\ Len(after) = Len(before) + Len(added)
    /\ \A i \in 1..Len(before) : after[i] = before[i]
    /\ \A i \in 1..Len(added) : after[Len(before) + i] = added[i]

\* C28: voting_history and debate_history only grow: a vote on a non-empty
\* round appends its one result, a debate of at least 2 proposals appends
\* one transcript, the empty and fewer-than-2 paths and every other
\* operation (clear_proposals included) leave both as they are; a vote or
\* a debate changes neither the proposals nor agent_metrics, so a second
\* call on the same round returns what the first returned.
C28_HistoriesAppendOnly ==
    [][/\ call'.op = "calculate_weighted_votes" =>
            /\ proposals # <<>> => GrewBy(voting_history, voting_history', <<ret'>>)
            /\ proposals = <<>> => voting_history' = voting_history
            /\ UNCHANGED <<debate_history, proposals, agent_metrics>>
            /\ call.op = "calculate_weighted_votes" => ret' = ret
       /\ call'.op = "generate_debate" =>
            /\ Len(proposals) >= 2 =>
                  /\ Len(debate_history') = Len(debate_history) + 1
                  /\ GrewBy(debate_history, debate_history', <<debate_history'[Len(debate_history')]>>)
                  /\ Len(debate_history'[Len(debate_history')]) = Len(ret')
            /\ Len(proposals) < 2 => debate_history' = debate_history /\ ret' = <<>>
            /\ UNCHANGED <<voting_history, proposals, agent_metrics>>
            /\ call.op = "generate_debate" => ret' = ret
       /\ call'.op \notin {"calculate_weighted_votes", "generate_debate"} =>
            UNCHANGED <<voting_history, debate_history>>
      ]_vars

\* a round voted on twice and debated twice, then cleared: two equal vote
\* records and two equal transcripts remain
C28_Witness ==
    /\ call.op = "clear_proposals"
    /\ proposals = <<>>
    /\ Len(voting_history) = 2
    /\ voting_history[1] = voting_history[2]
    /\ voting_history[1].total_proposals = 2
    /\ Len(debate_history) = 2
    /\ debate_history[1] = debate_history[2]

(***************************************************************************)
(* The game loop of main.py (websocket_endpoint) on one connection.  A     *)
(* client message is a record: the JSON object it parses to, or one        *)
(* without a type field for text that is not JSON.  What the language      *)
(* model chains return is not modelled: a team's turn always ends in its   *)
(* PROPOSAL broadcast (the chains' failures are caught), while setting up  *)
(* the mission and calculate_impact work on values taken from the client   *)
(* and the chains and may raise, which ends the handler.                   *)
(***************************************************************************)
\* msg.get("type") after json.loads, None when json.loads raises
command_type(msg) == IF "type" \in DOMAIN msg THEN msg.type ELSE None

GlobalCommands == {"SUMMARIZE", "GET_CODE", "EXPLAIN"}

\* receive_game_command ignoring a START that is not awaited
receive_game_command_ignoring_start(expected_type, msg) ==
    IF "type" \notin DOMAIN msg THEN "continue"
    ELSE IF command_type(msg) = "START"
         THEN IF expected_type = "START" THEN "return" ELSE "continue"
         ELSE IF command_type(msg) \in GlobalCommands THEN "continue"
              ELSE IF command_type(msg) = expected_type THEN "return" ELSE "continue"

\* what receive_game_command does with one message: it returns it, raises
\* RestartException, or goes on waiting
receive_game_command(expected_type, msg) ==
    IF "type" \notin DOMAIN msg THEN "continue"
    ELSE IF command_type(msg) = "START"
         THEN IF expected_type = "START" THEN "return" ELSE "raise"
         ELSE IF command_type(msg) \in GlobalCommands THEN "continue"
              ELSE IF command_type(msg) = expected_type THEN "return" ELSE "continue"

\* a decision counting as approved unless it says otherwise
decision_approved_by_default(decision) ==
    "approved" \notin DOMAIN decision \/ decision.approved = TRUE

\* decision.get("approved") is True
decision_approved(decision) ==
    "approved" \in DOMAIN decision /\ decision.approved = TRUE

Waiting == {"WAIT_START", "RED_WAIT_DECISION", "BLUE_WAIT_DECISION"}

\* the expected_type of the receive_game_command call the handler is in
ExpectedType == IF game_pc = "WAIT_START" THEN "START" ELSE "DECISION"

Broadcast(type, team) == [type |-> type, team |-> team]

\* the client sends a message
ClientSends(msg, counted) ==
    /\ game_pc # "CLOSED"
    /\ inbox' = Append(inbox, msg)
    /\ sent' = [sent EXCEPT ![counted] = @ + 1]
    /\ call' = Call("send", <<msg>>)
    /\ ret' = None
    /\ UNCHANGED <<orchestratorVars, strategists, reflection_history, game_pc, broadcasts>>

\* receive_text hands the next message to receive_game_command, and the
\* handler runs on to its next wait; sound is whether the code run on a
\* START or an approved BLUE decision raises nothing
ReceiveText(sound) ==
    /\ game_pc \in Waiting
    /\ inbox # <<>>
    /\ LET msg == Head(inbox)
           outcome == receive_game_command(ExpectedType, msg)
       IN  /\ inbox' = Tail(inbox)
           /\ call' = Call("receive_game_command", <<ExpectedType, msg>>)
           /\ ret' = outcome
           /\ CASE outcome = "continue" ->
                     UNCHANGED <<game_pc, broadcasts>>
                [] outcome = "raise" ->
                     game_pc' = "WAIT_START" /\ UNCHANGED broadcasts
                [] outcome = "return" /\ game_pc = "WAIT_START" ->
                     IF sound
                     THEN /\ broadcasts' = Append(broadcasts, Broadcast("MISSION", None))
                          /\ game_pc' = "RED_TURN"
                     ELSE game_pc' = "CLOSED" /\ UNCHANGED broadcasts
                [] outcome = "return" /\ game_pc = "RED_WAIT_DECISION" ->
                     IF decision_approved(msg)
                     THEN /\ broadcasts' = Append(broadcasts, Broadcast("ATTACK_LAUNCH", "RED"))
                          /\ game_pc' = "BLUE_TURN"
                     ELSE game_pc' = "RED_TURN" /\ UNCHANGED broadcasts
                [] outcome = "return" /\ game_pc = "BLUE_WAIT_DECISION" ->
                     IF decision_approved(msg)
                     THEN IF sound
                          THEN /\ broadcasts' = Append(broadcasts, Broadcast("IMPACT", "BLUE"))
                               /\ game_pc' = "WAIT_START"
                          ELSE game_pc' = "CLOSED" /\ UNCHANGED broadcasts
                     ELSE game_pc' = "BLUE_TURN" /\ UNCHANGED broadcasts
    /\ UNCHANGED <<orchestratorVars, strategists, reflection_history, sent>>

\* the agents of a team speak in turn and the commander's PROPOSAL is
\* broadcast
TeamTurn(team) ==
    /\ game_pc = team \o "_TURN"
    /\ broadcasts' = Append(broadcasts, Broadcast("PROPOSAL", team))
    /\ game_pc' = team \o "_WAIT_DECISION"
    /\ call' = Call("broadcast", <<"PROPOSAL", team>>)
    /\ ret' = None
    /\ UNCHANGED <<orchestratorVars, strategists, reflection_history, inbox, sent>>

\* the client goes away: receive_text raises WebSocketDisconnect
Disconnect ==
    /\ game_pc \in Waiting
    /\ game_pc' = "CLOSED"
    /\ call' = Call("disconnect", <<>>)
    /\ ret' = None
    /\ UNCHANGED <<orchestratorVars, strategists, reflection_history, inbox, broadcasts, sent>>

\* ---------------------------------------------------------------------------
\* A client that sends game commands and, now and then, something else.

MaxCommands == 4

MaxNoise == 1

GameCommands ==
    {[type |-> "START"],
     [type |-> "DECISION", approved |-> TRUE],
     [type |-> "DECISION", approved |-> FALSE],
     [type |-> "DECISION"]}

\* the global commands, a type the server does not know, text that is not
\* JSON
NoiseMessages ==
    {[type |-> "SUMMARIZE"], [type |-> "GET_CODE"], [type |-> "EXPLAIN"],
     [type |-> "PING"], [malformed |-> TRUE]}

SendCommand ==
    \E msg \in GameCommands : sent.commands < MaxCommands /\ ClientSends(msg, "commands")

SendNoise ==
    \E msg \in NoiseMessages : sent.noise < MaxNoise /\ ClientSends(msg, "noise")

Receive == \E sound \in BOOLEAN : ReceiveText(sound)

Turn == \E team \in Teams : TeamTurn(team)

NextGame == SendCommand \/ SendNoise \/ Receive \/ Turn \/ Disconnect

SpecGame == Init /\ [][NextGame]_vars

\* the positions of log that belong to the mission position k belongs to
\* and come before k
EarlierInMission(log, k) ==
    {i \in 1..(k - 1) : \A j \in (i + 1)..k : log[j].type # "MISSION"}

\* the step is receive_game_command taking a message of that type
Takes(type) ==
    /\ call'.op = "receive_game_command"
    /\ command_type(call'.args[2]) = type

\* C29: within a mission ATTACK_LAUNCH is broadcast only in answer to a
\* DECISION with approved = true taken while the RED PROPOSAL is pending;
\* the BLUE PROPOSAL comes only after the ATTACK_LAUNCH; IMPACT is
\* broadcast only in answer to a DECISION with approved = true taken while
\* the BLUE PROPOSAL is pending, after the ATTACK_LAUNCH.  A DECISION that
\* is not approved = true broadcasts neither and gives the turn back to the
\* same team, whose next broadcast is a new PROPOSAL.  A mission has at
\* most one ATTACK_LAUNCH and one IMPACT.
C29_ApprovalBeforeAction ==
    [][/\ \A k \in 1..Len(broadcasts') :
             LET b == broadcasts'[k]
                 earlier == {broadcasts'[i].type : i \in EarlierInMission(broadcasts', k)}
             IN  /\ b.type = "ATTACK_LAUNCH" =>
                       /\ broadcasts'[k - 1] = Broadcast("PROPOSAL", "RED")
                       /\ "ATTACK_LAUNCH" \notin earlier
                 /\ b = Broadcast("PROPOSAL", "BLUE") => "ATTACK_LAUNCH" \in earlier
                 /\ b.type = "IMPACT" =>
                       /\ broadcasts'[k - 1] = Broadcast("PROPOSAL", "BLUE")
                       /\ "ATTACK_LAUNCH" \in earlier
                       /\ "IMPACT" \notin earlier
       /\ broadcasts' # broadcasts =>
             LET b == broadcasts'[Len(broadcasts')]
             IN  /\ broadcasts' = Append(broadcasts, b)
                 /\ b.type \in {"ATTACK_LAUNCH", "IMPACT"} =>
                       /\ Takes("DECISION")
                       /\ call'.args[2] = [type |-> "DECISION", approved |-> TRUE]
                       /\ game_pc = (IF b.type = "IMPACT" THEN "BLUE" ELSE "RED") \o "_WAIT_DECISION"
       /\ (Takes("DECISION") /\ game_pc # "WAIT_START"
              /\ call'.args[2] # [type |-> "DECISION", approved |-> TRUE]) =>
             /\ broadcasts' = broadcasts
             /\ game_pc' = (IF game_pc = "RED_WAIT_DECISION" THEN "RED_TURN" ELSE "BLUE_TURN")
       /\ game_pc \in {"RED_TURN", "BLUE_TURN"} /\ game_pc' # game_pc =>
             /\ broadcasts' = Append(broadcasts, Broadcast("PROPOSAL", IF game_pc = "RED_TURN" THEN "RED" ELSE "BLUE"))
             /\ game_pc' = (IF game_pc = "RED_TURN" THEN "RED" ELSE "BLUE") \o "_WAIT_DECISION"
      ]_vars

\* a mission played to its end with one rejection on the way: the RED
\* proposal is rejected and made again, then both teams are approved
C29_Witness ==
    /\ game_pc = "WAIT_START"
    /\ broadcasts = <<Broadcast("MISSION", None),
                      Broadcast("PROPOSAL", "RED"), Broadcast("PROPOSAL", "RED"),
                      Broadcast("ATTACK_LAUNCH", "RED"),
                      Broadcast("PROPOSAL", "BLUE"), Broadcast("IMPACT", "BLUE")>>

\* C30: a START taken while a DECISION is awaited ends the mission: nothing
\* is broadcast for the pending proposal, the handler waits for START
\* again, and that START is used up, a mission being initialised only by a
\* START taken while START is awaited.  SUMMARIZE, GET_CODE, EXPLAIN,
\* messages of unknown type and text that is not JSON leave the awaited
\* type as it is.
C30_RestartAndNoise ==
    [][/\ (Takes("START") /\ game_pc \in {"RED_WAIT_DECISION", "BLUE_WAIT_DECISION"}) =>
             /\ broadcasts' = broadcasts
             /\ game_pc' = "WAIT_START"
             /\ inbox' = Tail(inbox)
       /\ (broadcasts' # broadcasts /\ broadcasts'[Len(broadcasts')].type = "MISSION") =>
             /\ Takes("START")
             /\ game_pc = "WAIT_START"
       /\ game_pc = "WAIT_START" /\ broadcasts' # broadcasts =>
             broadcasts' = Append(broadcasts, Broadcast("MISSION", None))
       /\ (call'.op = "receive_game_command"
              /\ command_type(call'.args[2]) \notin {"START", "DECISION"}) =>
             /\ game_pc' = game_pc
             /\ broadcasts' = broadcasts
             /\ inbox' = Tail(inbox)
      ]_vars

\* a START taken while the decision on the BLUE proposal was awaited: the
\* mission ended without IMPACT, and a further START began the next one
C30_Witness ==
    /\ game_pc = "RED_TURN"
    /\ call.op = "receive_game_command"
    /\ call.args[2] = [type |-> "START"]
    /\ sent.commands = 4
    /\ broadcasts = <<Broadcast("MISSION", None),
                      Broadcast("PROPOSAL", "RED"), Broadcast("ATTACK_LAUNCH", "RED"),
                      Broadcast("PROPOSAL", "BLUE"),
                      Broadcast("MISSION", None)>>

=============================================================================
